---- MODULE Spec2Model ----
(***************************************************************************)
(* The signal-streaming subsystem of the SBT lock-in amplifier driver      *)
(* (drivers/char/sbt_lockamp): the hardware FIFO, the circular sample      *)
(* buffer, the acquisition kthread (fifo_to_sbuf), the chunked read        *)
(* (device_read), the desync detector (synchronize) and the session        *)
(* lifecycle (device_open / device_release).                               *)
(*                                                                         *)
(* Representation.  Every time value (now, last_start_time_ns, the header  *)
(* time stamp) is held in units of UnitNs = 8 ns.  LOCKAMP_BASE_TIME_STEP  *)
(* = 2728 = 8 * 341, so every time step is a whole number of units, and a  *)
(* product reduced modulo 2^SizeBits ns is the same product reduced modulo *)
(* 2^(SizeBits-3) units.  The clock is read in whole units.                *)
(* A sample is the pair <<sites[0], sites[1]>>; each site carries the      *)
(* sequence number of the hardware sample it was popped from (0 = never    *)
(* written), so a sample is torn exactly when its two sites differ.        *)
(* open_count is an unsigned int; it is held by its two's-complement       *)
(* representative, so -1 stands for UINT_MAX and 0 < open_count is         *)
(* open_count # 0.                                                         *)
(* A u64 count of ns that may pass 2^31 (the duration of a drain) is the    *)
(* record [hi, lo] standing for hi * 2^31 + lo.                            *)
(* The registers the driver only writes (FIR cycles, FIR coefficients) and *)
(* the sample multiplier are the record cfg, with the result of the last   *)
(* attribute store.                                                        *)
(*                                                                         *)
(* Specifications.                                                         *)
(*   Spec     one user process opens, reads and closes; the kthread, the   *)
(*            reader and the hardware interleave step by step on a ring of *)
(*            2^CapLog2 slots; any copy_to_user may fault.                 *)
(*   SpecOpen two user processes open and close with no discipline between *)
(*            them.                                                        *)
(*   SpecSeq  the ring at LOCKAMP_SIGNAL_BUF_CAPACITY, every handler run   *)
(*            to completion, with changes of the decimation factor.        *)
(*   SpecCfg  one session with the kthread and the reader step by step,    *)
(*            and the attribute stores, the pm callbacks and write()       *)
(*            called at any point.                                         *)
(*   SpecAttr the attribute stores and the pm callbacks on their own, with *)
(*            every decimation factor.                                     *)
(*   SpecProbe lockamp_probe with signal buffers of several sizes, the     *)
(*            handlers of the bound device, and lockamp_remove.            *)
(*   SpecLive one session under fair scheduling of the kthread and of the  *)
(*            return of kthread_stop.                                      *)
(*   SpecSleep the iterations of the kthread on an empty hardware FIFO,    *)
(*            with drains of many durations and every decimation factor.   *)
(*   SpecAdc  two processes read the latest_adc_samples attribute in       *)
(*            pieces of PAGE_SIZE bytes.                                   *)
(*   SpecFifoRead device_read of the driver built without the signal       *)
(*            buffer, step by step, with the hardware filling the FIFO.    *)
(*   SpecStepper the velocity ramp of the stepper class                    *)
(*            (drivers/stepper/stepper.c): registration, writes of the     *)
(*            velocity_target attribute and the delayed work.              *)
(*   SpecStepperLive the same under fair scheduling of the delayed work.   *)
(***************************************************************************)
EXTENDS Integers, Sequences, FiniteSets, TLC

\* ------------------------------------------------------------------ bounds
\* log2 of the ring capacity in the interleaving models (Spec, SpecOpen,
\* SpecCfg)
CapLog2 == 2
\* samples the hardware produces in one run of the interleaving model
MaxSamples == 5
\* depth of the hardware FIFO, in samples, in the interleaving model
HwFifoDepth == 2
\* cap of the desync counter
MaxDesyncs == 2
\* drains of a full hardware FIFO in one run of the sequential model (SpecSeq)
MaxSeqDrains == 33
\* samples the hardware produces in one run of the racing-opens model (SpecOpen)
MaxOpenSamples == 2
\* samples the hardware produces in one run of the settings model (SpecCfg)
MaxCfgSamples == 2
\* samples the hardware produces in one run of the fair model (SpecLive)
MaxLiveSamples == 2

\* ------------------------------------------------------- program constants
LOCKAMP_SITES_PER_SAMPLE == 2
LOCKAMP_ENTRIES_PER_SITE == 4
LOCKAMP_SIGNAL_BUF_CAPACITY == 4194304
LOCKAMP_FIFO_CAPACITY == 131072
LOCKAMP_BASE_TIME_STEP == 2728
\* sizeof(struct chunk_header)
sizeof_chunk_header == 16
\* width of unsigned int and size_t on the driver's target (arm-linux-gnueabihf)
SizeBits == 32

\* sizeof(struct sample): sites * entries * sizeof(s32)
sizeof_sample == LOCKAMP_SITES_PER_SAMPLE * LOCKAMP_ENTRIES_PER_SITE * (2 * 2)
\* lockamp_fifo_capacity_n: the hardware FIFO's capacity in samples
lockamp_fifo_capacity_n == LOCKAMP_FIFO_CAPACITY \div sizeof_sample
\* ns per time unit of the model
UnitNs == 2 ^ 3
\* 2^SizeBits ns, in time units
WordUnits == 2 ^ (SizeBits - 3)

NULL == 0
Threads == {1, 2}
Procs == {1, 2}

Min(a, b) == IF a < b THEN a ELSE b

\* ------------------------------------------------- <linux/circ_buf.h> macros
RECURSIVE BitAnd(_, _)
\* bitwise AND of two naturals
BitAnd(x, m) ==
    IF x = 0 \/ m = 0 THEN 0
    ELSE (x % 2) * (m % 2) + 2 * BitAnd(x \div 2, m \div 2)

\* x & m for a possibly negative two's-complement x and a mask 0 <= m < 2^30
Mask(x, m) == BitAnd(x % (2 ^ 30), m)

CIRC_CNT(h, t, size) == Mask(h - t, size - 1)

\* a faulty CIRC_SPACE that keeps no slot free
CIRC_SPACE_no_free_slot(h, t, size) == size - CIRC_CNT(h, t, size)

CIRC_SPACE(h, t, size) == CIRC_CNT(t, h + 1, size)

CIRC_CNT_TO_END(h, t, size) ==
    LET end == size - t
        n == Mask(h + end, size - 1)
    IN IF n < end THEN n ELSE end

\* ------------------------------------------------------------- hw.c / hw.h
\* a faulty lockamp_get_decimation that counts the filters
lockamp_get_decimation_linear(hb) == hb + 1

\* lockamp_get_decimation: 1 << hb_filters
lockamp_get_decimation(hb) == 2 ^ hb

\* in ns
lockamp_get_time_step_ns(hb) == lockamp_get_decimation(hb) * LOCKAMP_BASE_TIME_STEP

\* unsigned int * size_t, evaluated in SizeBits bits and then widened to u64;
\* the result in time units
lockamp_get_duration_ns(hb, size_n) ==
    ((lockamp_get_time_step_ns(hb) \div UnitNs) * size_n) % WordUnits

\* the exact product, in time units
ExactDuration(time_step_ns, size_n) == (time_step_ns \div UnitNs) * size_n

\* ------------------------------------------------------------------- state
VARIABLES
    probe,               \* lockamp_probe: its outcome, and the vmalloc'ed buffer
    capacity_n,          \* signal_buf.capacity_n
    buf,                 \* signal_buf.buf: slot -> <<sites[0], sites[1]>>
    head,                \* signal_buf.head
    tail,                \* signal_buf.tail
    desyncs,             \* lockamp->desyncs
    last_desyncs,        \* lockamp->last_desyncs
    last_start_time_ns,  \* lockamp->last_start_time_ns (time units)
    hb_filters,          \* the half-band filter register (control2 + 4)
    cfg,                 \* the other settings, and the last store's result
    signal_buf_m,        \* owner of lockamp->signal_buf_m, NULL when free
    open_count,          \* fops.c: static unsigned int open_count
    thread,              \* fops.c: struct task_struct *thread
    fifo,                \* the hardware FIFO: sequence numbers of its samples
    hw_seq,              \* number of samples the hardware has produced
    now,                 \* ktime_get_ns() (time units)
    k,                   \* the kthreads: thread id -> record
    u,                   \* the user processes: process id -> record
    g_pushed,            \* history: samples published into the ring, in order
    g_returned,          \* history: samples returned by successful reads
    g_expect,            \* history: the exact timeline since the last reset
    g_tfixed,            \* history: time step unchanged since the last reset
    g_popped,            \* history: number of samples released by tail stores
    g_sat,               \* history: drains that met a saturated ring, and
    g_rd,                \* snapshots of a saturated ring, since last_desyncs
                         \* was last assigned
    g_lost,              \* history: the hardware FIFO has dropped a sample
                         \* since the timeline was last reset or checked
    adc_buffer,          \* lockamp->adc_buffer: the acquisition it holds
    adc_acq,             \* number of lockamp_get_adc_samples calls so far
    adc_rd,              \* readers of latest_adc_samples: process id -> record
    stepdev,             \* stepper.c: struct stepper_device
    g_step,              \* history: the stepper's set_velocity calls and the
                         \* last stepper_set_target_velocity result
    fifo_rd,             \* device_read without the signal buffer: process
                         \* id -> record
    kbufs                \* vmalloc'ed read buffers not yet vfree'd

ring_vars == <<probe, capacity_n, buf, head, tail>>
sync_vars == <<desyncs, last_desyncs, last_start_time_ns>>
sess_vars == <<open_count, thread>>
hw_vars == <<fifo, hw_seq, now>>
time_hist == <<g_expect, g_tfixed>>
desync_hist == <<g_sat, g_rd, g_lost>>
hist_vars == <<g_pushed, g_returned, g_popped, time_hist, desync_hist>>
adc_vars == <<adc_buffer, adc_acq, adc_rd>>
step_vars == <<stepdev, g_step>>
other_vars == <<adc_vars, step_vars, fifo_rd, kbufs>>
vars == <<ring_vars, sync_vars, hb_filters, cfg, signal_buf_m, sess_vars,
          hw_vars, k, u, hist_vars, other_vars>>

NoSample == <<0, 0>>
\* a u64 count of ns, hi * 2^31 + lo with 0 <= lo < 2^31
Dur0 == [hi |-> 0, lo |-> 0]
\* what the last sleep_until_fifo_half_full of a thread did: whether the
\* read delay was reported as an error, the target it worked with, the range
\* passed to usleep_range (slept), and the warning and msleep of fifo_to_sbuf
Sleep0 == [err |-> FALSE, target_ns |-> 0, slept |-> FALSE, lower_us |-> 0,
           upper_us |-> 0, warned |-> FALSE, msleep_ms |-> 0]
Snap0 == [head |-> 0, tail |-> 0, size_n |-> 0]
Info0 == [last_start_time_ns |-> 0, time_step_ns |-> 0, data_size_n |-> 0]
K0 == [pc |-> "none", head |-> 0, space |-> 0, left |-> 0, site |-> 0,
       written |-> <<>>, stop |-> FALSE, read_duration |-> Dur0,
       sleep |-> Sleep0]
U0 == [pc |-> "closed", op |-> "none", err |-> "", ret |-> 0, seen |-> 0,
       target |-> NULL, len |-> 0, snap0 |-> Snap0, snap |-> Snap0,
       info |-> Info0, length |-> 0, data |-> <<>>, resync |-> FALSE,
       t_sync |-> 0, usr_bytes |-> 0, lost |-> FALSE,
       first |-> FALSE]

\* the settings after lockamp_probe: the FIR cycles register at its reset
\* value, lockamp_fir_coefs[0] loaded, the multiplier 1, nothing stored yet
Cfg0 == [fir_cycles |-> 0, fir_filter |-> 0, sample_multiplier |-> 1,
         result |-> "none"]

\* no platform device bound yet
Probe0 == [state |-> "none", ret |-> "", vmalloc |-> FALSE]

\* a reader of latest_adc_samples: the offset of its next piece, the
\* acquisitions its pieces so far were copied from, whether another process
\* has read offset 0 since its own first piece, and whether its read is
\* complete (the read at the end of the attribute has returned 0)
AdcRd0 == [offset |-> 0, from |-> {}, raced |-> FALSE, done |-> FALSE]

\* tmc2100.c: static struct stepper_vel_cfg tmc2100_cfg
tmc2100_cfg == [rate_of_change |-> 1, shift_delay_ms |-> 10, min |-> -100, max |-> 100]

\* struct stepper_device before stepper_device_register; velocity_dwork is
\* pending (queued, its timer running or waiting for a worker) and running
\* (a worker has cleared the pending bit and calls the function)
StepDev0 == [registered |-> FALSE, velocity_current |-> 0, velocity_target |-> 0,
             velocity_shifting |-> FALSE,
             velocity_dwork |-> [pending |-> FALSE, running |-> FALSE],
             cfg |-> tmc2100_cfg]

\* the stepper's history: the last two velocities passed to ops->set_velocity
\* (0, the velocity at registration, before the first call), and the number
\* of stepper_set_target_velocity calls with the argument and the result of
\* the last one
GStep0 == [prev |-> 0, cur |-> 0, sets |-> 0, vel |-> 0, result |-> 0]

\* a device_read without the signal buffer: where the process is in it,
\* whether its kbuf points to a buffer, the samples it has bounded its read
\* to and those in kbuf, and (pc "idle", op "read") the error or the count of
\* bytes it has returned
FifoRd0 == [pc |-> "idle", op |-> "none", kbuf |-> FALSE, bounded_size_n |-> 0,
            popped |-> <<>>, err |-> "", ret |-> 0]

\* the drivers' other state after module initialisation
OtherInit ==
    /\ adc_buffer = 0
    /\ adc_acq = 0
    /\ adc_rd = [p \in Procs |-> AdcRd0]
    /\ stepdev = StepDev0
    /\ g_step = GStep0
    /\ fifo_rd = [p \in Procs |-> FifoRd0]
    /\ kbufs = 0

\* lockamp_probe has returned 0
Probed == [state |-> "bound", ret |-> "", vmalloc |-> TRUE]

\* lockamp_probe: the state of a probed device, before any open
ProbeState(cap) ==
    /\ probe = Probed
    /\ capacity_n = cap
    /\ head = 0
    /\ tail = 0
    /\ desyncs = 0
    /\ last_desyncs = 0
    /\ last_start_time_ns = 0
    /\ hb_filters = 0
    /\ cfg = Cfg0
    /\ signal_buf_m = NULL
    /\ open_count = 0
    /\ thread = NULL
    /\ fifo = <<>>
    /\ hw_seq = 0
    /\ now = 0
    /\ k = [t \in Threads |-> K0]
    /\ u = [p \in Procs |-> U0]
    /\ g_pushed = <<>>
    /\ g_returned = <<>>
    /\ g_expect = 0
    /\ g_tfixed = TRUE
    /\ g_popped = 0
    /\ g_sat = 0
    /\ g_rd = 0
    /\ g_lost = FALSE
    /\ OtherInit

Init ==
    /\ ProbeState(2 ^ CapLog2)
    /\ buf = [i \in 0 .. (2 ^ CapLog2 - 1) |-> NoSample]

\* ---------------------------------------------------------------- hardware
\* The FPGA produces one sample per time step; a sample that finds the
\* hardware FIFO full is lost.
HwProduce ==
    /\ hw_seq < MaxSamples
    /\ hw_seq' = hw_seq + 1
    /\ now' = now + lockamp_get_time_step_ns(hb_filters) \div UnitNs
    /\ fifo' = IF Len(fifo) < HwFifoDepth THEN Append(fifo, hw_seq + 1) ELSE fifo
    /\ g_lost' = (g_lost \/ Len(fifo) >= HwFifoDepth)
    /\ UNCHANGED <<other_vars, ring_vars, sync_vars, hb_filters, cfg, signal_buf_m, sess_vars,
                   k, u, g_pushed, g_returned, g_popped, time_hist, g_sat, g_rd>>

\* lockamp_fifo_size_n
lockamp_fifo_size_n == Len(fifo)

\* the ring holds capacity_n - 1 samples
Saturated == CIRC_CNT(head, tail, capacity_n) = capacity_n - 1

\* ------------------------------------------------------ acquisition thread
\* a faulty thread that never sees the stop request
kthread_should_stop_never(t) == FALSE

\* kthread_should_stop(), called by thread t
kthread_should_stop(t) == k[t].stop

\* a faulty bound that trusts the ring's space alone
BoundedSizeN_space_only(signal_buf_space_n, fifo_size_n) == signal_buf_space_n

\* lockamp_fifo_move_to_sbuf: bounded_size_n = min(signal_buf_space_n, fifo_size_n)
BoundedSizeN(signal_buf_space_n, fifo_size_n) ==
    Min(signal_buf_space_n, fifo_size_n)

\* a faulty computation that forgets the slot the ring keeps free
SignalBufSpaceN_plus_one == CIRC_SPACE(head, tail, capacity_n) + 1

\* lockamp_fifo_move_to_sbuf: head = sbuf->head, tail = READ_ONCE(sbuf->tail),
\* signal_buf_space_n = CIRC_SPACE(head, tail, sbuf->capacity_n)
SignalBufSpaceN == CIRC_SPACE(head, tail, capacity_n)

\* fifo_to_sbuf: loop top, mutex_lock, and lockamp_fifo_move_to_sbuf up to the
\* computation of bounded_size_n
lockamp_fifo_move_to_sbuf_begin(t) ==
    LET space == SignalBufSpaceN
    IN /\ k[t].pc = "idle"
       /\ ~kthread_should_stop(t)
       /\ signal_buf_m = NULL
       /\ space = 0 => desyncs < MaxDesyncs
       /\ signal_buf_m' = t
       /\ desyncs' = IF space = 0 THEN desyncs + 1 ELSE desyncs
       /\ g_sat' = IF Saturated THEN g_sat + 1 ELSE g_sat
       /\ k' = [k EXCEPT ![t] = [@ EXCEPT !.pc = "drain", !.head = head,
                                          !.space = space,
                                          !.left = BoundedSizeN(space, lockamp_fifo_size_n),
                                          !.site = 0, !.written = <<>>]]
       /\ UNCHANGED <<other_vars, ring_vars, last_desyncs, last_start_time_ns, hb_filters, cfg,
                      sess_vars, hw_vars, u, g_pushed, g_returned, g_popped,
                      time_hist, g_rd, g_lost>>

\* the value the next FIFO read delivers
FifoFront == IF fifo = <<>> THEN 0 ELSE Head(fifo)

\* a faulty producer that stores head before the sample is complete
lockamp_fifo_pop_sample_early_head(t) ==
    /\ k[t].pc = "drain"
    /\ k[t].left > 0
    /\ k[t].site = 0
    /\ buf' = [buf EXCEPT ![k[t].head] = <<FifoFront, @[2]>>]
    /\ head' = Mask(k[t].head + 1, capacity_n - 1)
    /\ k' = [k EXCEPT ![t] = [@ EXCEPT !.site = 1]]
    /\ UNCHANGED <<other_vars, probe, capacity_n, tail, sync_vars, hb_filters, cfg, signal_buf_m,
                   sess_vars, hw_vars, u, hist_vars>>

\* lockamp_fifo_pop_sample, i = 0: the entries of sites[0]
lockamp_fifo_pop_sample_site0(t) ==
    /\ k[t].pc = "drain"
    /\ k[t].left > 0
    /\ k[t].site = 0
    /\ buf' = [buf EXCEPT ![k[t].head] = <<FifoFront, @[2]>>]
    /\ k' = [k EXCEPT ![t] = [@ EXCEPT !.site = 1]]
    /\ UNCHANGED <<other_vars, probe, capacity_n, head, tail, sync_vars, hb_filters, cfg, signal_buf_m,
                   sess_vars, hw_vars, u, hist_vars>>

\* lockamp_fifo_pop_sample, i = 1: the entries of sites[1], and the loop's
\* head = (head + 1) & sbuf_cap_minus_one
lockamp_fifo_pop_sample_site1(t) ==
    /\ k[t].pc = "drain"
    /\ k[t].left > 0
    /\ k[t].site = 1
    /\ buf' = [buf EXCEPT ![k[t].head] = <<@[1], FifoFront>>]
    /\ fifo' = IF fifo = <<>> THEN fifo ELSE Tail(fifo)
    /\ k' = [k EXCEPT ![t] = [@ EXCEPT !.site = 0, !.left = @ - 1,
                                       !.head = Mask(@ + 1, capacity_n - 1),
                                       !.written = Append(@, FifoFront)]]
    /\ UNCHANGED <<other_vars, probe, capacity_n, head, tail, sync_vars, hb_filters, cfg, signal_buf_m,
                   sess_vars, hw_seq, now, u, hist_vars>>

\* smp_store_release(&sbuf->head, head), then mutex_unlock and the sleep
lockamp_fifo_move_to_sbuf_publish(t) ==
    /\ k[t].pc = "drain"
    /\ k[t].left = 0
    /\ head' = k[t].head
    /\ signal_buf_m' = NULL
    /\ g_pushed' = g_pushed \o k[t].written
    /\ k' = [k EXCEPT ![t] = [@ EXCEPT !.pc = "idle", !.space = 0,
                                       !.written = <<>>]]
    /\ UNCHANGED <<other_vars, probe, capacity_n, buf, tail, sync_vars, hb_filters, cfg, sess_vars,
                   hw_vars, u, g_returned, g_popped, time_hist, desync_hist>>

\* kthread_should_stop() seen at the loop top (or before the first run)
fifo_to_sbuf_exit(t) ==
    /\ k[t].pc \in {"idle", "created"}
    /\ kthread_should_stop(t)
    /\ k' = [k EXCEPT ![t] = [@ EXCEPT !.pc = "exited"]]
    /\ UNCHANGED <<other_vars, ring_vars, sync_vars, hb_filters, cfg, signal_buf_m, sess_vars,
                   hw_vars, u, hist_vars>>

\* ------------------------------------------------------------- device_read
\* lengths a caller passes to read()
ReadLengths ==
    {sizeof_chunk_header - 1, sizeof_chunk_header,
     sizeof_chunk_header + 2 * sizeof_sample - 1,
     sizeof_chunk_header + (2 ^ CapLog2) * sizeof_sample}

\* the reader's record when device_read returns: its locals are gone
Returned(r) == [r EXCEPT !.pc = "opened", !.snap = Snap0, !.length = 0,
                         !.data = <<>>, !.lost = FALSE, !.first = FALSE]

\* a faulty snapshot that never counts a desync
SnapshotFull_never(size_n) == FALSE

\* reader_get_sbuf_snapshot: capacity_n - 1 == snap->size_n
SnapshotFull(size_n) == capacity_n - 1 = size_n

\* the time stamp and the time step of the header the session's previous read
\* has written, when that read has returned no error (Info0 when there is
\* none); they stay in info until chunk_get_info builds the header of the
\* read under way
PreviousHeader(p) ==
    IF u[p].op = "read" /\ u[p].err = ""
    THEN [u[p].info EXCEPT !.data_size_n = 0]
    ELSE Info0

\* device_read entry and reader_get_sbuf_snapshot
reader_get_sbuf_snapshot(p, len) ==
    LET size_n == CIRC_CNT(head, tail, capacity_n)
        snap == [head |-> head, tail |-> tail, size_n |-> size_n]
        full == SnapshotFull(size_n)
    IN /\ u[p].pc = "opened"
       /\ Saturated => desyncs < MaxDesyncs
       /\ desyncs' = IF full THEN desyncs + 1 ELSE desyncs
       /\ g_rd' = IF Saturated THEN g_rd + 1 ELSE g_rd
       /\ u' = [u EXCEPT ![p] = [U0 EXCEPT !.pc = "r_sync1", !.op = "read",
                                           !.len = len,
                                           !.snap0 = snap, !.snap = snap,
                                           !.info = PreviousHeader(p),
                                           !.first = (u[p].op = "open")]]
       /\ UNCHANGED <<other_vars, ring_vars, last_desyncs, last_start_time_ns, hb_filters, cfg,
                      signal_buf_m, sess_vars, hw_vars, k, g_pushed, g_returned,
                      g_popped, time_hist, g_sat, g_lost>>

\* synchronize: the first atomic_read of desyncs, and reset_start_time
synchronize_check(p) ==
    LET differ == desyncs # last_desyncs
    IN /\ u[p].pc = "r_sync1"
       /\ last_start_time_ns' = IF differ THEN now ELSE last_start_time_ns
       /\ g_expect' = IF differ THEN now ELSE g_expect
       /\ g_tfixed' = IF differ THEN TRUE ELSE g_tfixed
       /\ u' = [u EXCEPT ![p] = [@ EXCEPT !.pc = "r_info", !.resync = differ,
                                          !.lost = g_lost,
                                          !.t_sync = IF differ THEN now ELSE 0]]
       /\ g_lost' = FALSE
       /\ UNCHANGED <<other_vars, ring_vars, desyncs, last_desyncs, hb_filters, cfg, signal_buf_m,
                      sess_vars, hw_vars, k, g_pushed, g_returned, g_popped,
                      g_sat, g_rd>>

\* a faulty data_size_n that forgets the room the header takes
DataSizeN_no_header(usr_buf_length, size_n) ==
    Min(usr_buf_length \div sizeof_sample, size_n)

\* chunk_get_info's data_size_n
DataSizeN(usr_buf_length, size_n) ==
    Min((usr_buf_length - sizeof_chunk_header) \div sizeof_sample, size_n)

\* a faulty chunk_get_info that accepts every length
TooShort_never(usr_buf_length) == FALSE

\* chunk_get_info: if (sizeof(struct chunk_header) > usr_buf_length)
TooShort(usr_buf_length) == sizeof_chunk_header > usr_buf_length

\* a faulty synchronize that never updates the reader's copy
synchronize_last_desyncs_kept == last_desyncs

\* synchronize: lockamp->last_desyncs = atomic_read(&lockamp->desyncs)
synchronize_last_desyncs == desyncs

\* a faulty chunk_get_info that counts the ring's samples again
SnapSizeN_live(p) == CIRC_CNT(head, tail, capacity_n)

\* chunk_get_info: sbuf_snap->size_n
SnapSizeN(p) == u[p].snap.size_n

\* synchronize's second atomic_read of desyncs, chunk_get_info and
\* write_header_to_user; copied is whether copy_to_user can write the header;
\* usr_bytes counts the bytes stored in the caller's buffer
chunk_get_info(p, copied) ==
    LET time_step_ns == lockamp_get_time_step_ns(hb_filters)
        data_size_n == DataSizeN(u[p].len, SnapSizeN(p))
        info == [last_start_time_ns |-> last_start_time_ns,
                 time_step_ns |-> time_step_ns,
                 data_size_n |-> data_size_n]
    IN /\ u[p].pc = "r_info"
       /\ last_desyncs' = synchronize_last_desyncs
       /\ g_sat' = 0
       /\ g_rd' = 0
       /\ g_lost' = g_lost
       /\ u' = [u EXCEPT ![p] =
                  IF TooShort(u[p].len)
                  THEN Returned([@ EXCEPT !.err = "EINVAL"])
                  ELSE IF ~copied
                  THEN Returned([@ EXCEPT !.err = "EFAULT", !.info = info])
                  ELSE [@ EXCEPT !.pc = "r_pop1", !.info = info,
                                 !.length = data_size_n * sizeof_sample,
                                 !.usr_bytes = sizeof_chunk_header]]
       /\ UNCHANGED <<other_vars, ring_vars, desyncs, last_start_time_ns, hb_filters, cfg,
                      signal_buf_m, sess_vars, hw_vars, k, g_pushed, g_returned,
                      g_popped, time_hist>>

\* pop_chunk_to_user: copy_length
CopyLength(p) ==
    Min(CIRC_CNT_TO_END(u[p].snap.head, u[p].snap.tail, capacity_n) * sizeof_sample,
        u[p].length)

\* pop_chunk_to_user: new_tail
NewTail(p) ==
    Mask(u[p].snap.tail + CopyLength(p) \div sizeof_sample, capacity_n - 1)

\* pop_chunk_to_user: the samples copy_to_user copies from cbuf->buf + tail
CopiedRun(p) ==
    [i \in 1 .. (CopyLength(p) \div sizeof_sample) |-> buf[u[p].snap.tail + i - 1]]

\* the reader's record after a successful pop_chunk_to_user
Popped(p) ==
    [u[p] EXCEPT !.data = @ \o CopiedRun(p),
                 !.snap = [@ EXCEPT !.tail = NewTail(p)],
                 !.length = @ - CopyLength(p),
                 !.usr_bytes = @ + CopyLength(p)]

\* pop_to_user: the first contiguous chunk; copied is whether copy_to_user
\* can write the run (a copy of no bytes cannot fail)
pop_chunk_to_user_first(p, copied) ==
    /\ u[p].pc = "r_pop1"
    /\ IF ~copied /\ CopyLength(p) > 0
       THEN /\ u' = [u EXCEPT ![p] = Returned([@ EXCEPT !.err = "EFAULT"])]
            /\ UNCHANGED <<other_vars, tail, g_popped>>
       ELSE /\ u' = [u EXCEPT ![p] = [Popped(p) EXCEPT !.pc = "r_pop2"]]
            /\ tail' = NewTail(p)
            /\ g_popped' = g_popped + CopyLength(p) \div sizeof_sample
    /\ UNCHANGED <<other_vars, probe, capacity_n, buf, head, sync_vars, hb_filters, cfg, signal_buf_m,
                   sess_vars, hw_vars, k, g_pushed, g_returned, time_hist,
                   desync_hist>>

\* pop_to_user: the second contiguous chunk; then chunk_commit_info and the
\* return of pos - buffer
pop_chunk_to_user_second(p, copied) ==
    /\ u[p].pc = "r_pop2"
    /\ IF ~copied /\ CopyLength(p) > 0
       THEN /\ u' = [u EXCEPT ![p] = Returned([@ EXCEPT !.err = "EFAULT"])]
            /\ UNCHANGED <<other_vars, tail, last_start_time_ns, g_returned, g_expect,
                           g_popped>>
       ELSE /\ u' = [u EXCEPT ![p] =
                       Returned([@ EXCEPT
                           !.ret = sizeof_chunk_header
                                   + (u[p].info.data_size_n * sizeof_sample
                                      - (u[p].length - CopyLength(p))),
                           !.usr_bytes = @ + CopyLength(p)])]
            /\ tail' = NewTail(p)
            /\ g_popped' = g_popped + CopyLength(p) \div sizeof_sample
            /\ last_start_time_ns' = last_start_time_ns
                  + lockamp_get_duration_ns(hb_filters, u[p].info.data_size_n)
            /\ g_returned' = g_returned \o u[p].data \o CopiedRun(p)
            /\ g_expect' = g_expect + ExactDuration(u[p].info.time_step_ns,
                                                    u[p].info.data_size_n)
    /\ UNCHANGED <<other_vars, probe, capacity_n, buf, head, desyncs, last_desyncs, hb_filters, cfg,
                   signal_buf_m, sess_vars, hw_vars, k, g_pushed, g_tfixed,
                   desync_hist>>

\* --------------------------------------------- device_open / device_release
\* a task_struct not in use; kthread_create takes the first one
FreeThreads == {t \in Threads : k[t].pc = "none"}

\* open_count is unsigned: 0 < open_count
OpenCountPositive(c) == c # 0

\* device_open: if (0 < open_count) return -EBUSY
device_open_check(p) ==
    /\ u[p].pc = "closed"
    /\ u' = [u EXCEPT ![p] =
               IF OpenCountPositive(open_count)
               THEN [U0 EXCEPT !.op = "open", !.err = "EBUSY"]
               ELSE [U0 EXCEPT !.pc = "o_inc", !.op = "open", !.seen = open_count]]
    /\ UNCHANGED <<other_vars, ring_vars, sync_vars, hb_filters, cfg, signal_buf_m, sess_vars,
                   hw_vars, k, hist_vars>>

\* device_open: ++open_count, a plain read-modify-write of a shared static (it
\* may reload open_count or reuse the value loaded by the check), and
\* lockamp_pm_get
device_open_inc(p, reload, pm_ok) ==
    /\ u[p].pc = "o_inc"
    /\ open_count' = (IF reload THEN open_count ELSE u[p].seen) + 1
    /\ u' = [u EXCEPT ![p] = IF pm_ok THEN [@ EXCEPT !.pc = "o_create"]
                             ELSE [@ EXCEPT !.pc = "o_dec", !.err = "pm_get"]]
    /\ UNCHANGED <<other_vars, ring_vars, sync_vars, hb_filters, cfg, signal_buf_m, thread,
                   hw_vars, k, hist_vars>>

\* device_open: thread = kthread_create(fifo_to_sbuf, lockamp, "lockamp0")
device_open_create(p, ok) ==
    /\ u[p].pc = "o_create"
    /\ IF ok
       THEN /\ FreeThreads # {}
            /\ LET t == CHOOSE x \in FreeThreads : \A y \in FreeThreads : x <= y
               IN /\ thread' = t
                  /\ k' = [k EXCEPT ![t] = [K0 EXCEPT !.pc = "created"]]
            /\ u' = [u EXCEPT ![p] = [@ EXCEPT !.pc = "o_wake"]]
       ELSE /\ thread' = NULL
            /\ k' = k
            /\ u' = [u EXCEPT ![p] = [@ EXCEPT !.pc = "o_dec",
                                               !.err = "kthread_create"]]
    /\ UNCHANGED <<other_vars, ring_vars, sync_vars, hb_filters, cfg, signal_buf_m, open_count,
                   hw_vars, hist_vars>>

\* device_open: increase_task_priority(thread) and wake_up_process(thread),
\* both on the shared pointer; a NULL pointer there is an oops
device_open_wake(p, prio_ok) ==
    /\ u[p].pc = "o_wake"
    /\ IF thread = NULL
       THEN /\ u' = [u EXCEPT ![p] = [@ EXCEPT !.pc = "oops"]]
            /\ k' = k
       ELSE IF ~prio_ok
       THEN /\ u' = [u EXCEPT ![p] = [@ EXCEPT !.pc = "o_stop",
                                               !.err = "sched_setscheduler"]]
            /\ k' = k
       ELSE /\ u' = [u EXCEPT ![p] = [@ EXCEPT !.pc = "o_sync"]]
            /\ k' = IF k[thread].pc = "created"
                    THEN [k EXCEPT ![thread] = [@ EXCEPT !.pc = "idle"]]
                    ELSE k
    /\ UNCHANGED <<other_vars, ring_vars, sync_vars, hb_filters, cfg, signal_buf_m, sess_vars,
                   hw_vars, hist_vars>>

\* a faulty open that resets the timeline but keeps the old baseline
device_open_sync_no_baseline(p) ==
    /\ u[p].pc = "o_sync"
    /\ last_start_time_ns' = now
    /\ g_expect' = now
    /\ g_tfixed' = TRUE
    /\ g_sat' = 0
    /\ g_rd' = 0
    /\ g_lost' = FALSE
    /\ u' = [u EXCEPT ![p] = [@ EXCEPT !.pc = "opened", !.t_sync = now]]
    /\ UNCHANGED <<other_vars, ring_vars, desyncs, last_desyncs, hb_filters, cfg,
                   signal_buf_m, sess_vars, hw_vars, k, g_pushed, g_returned,
                   g_popped>>

\* device_open: lockamp->last_desyncs = atomic_read(&lockamp->desyncs), and
\* reset_start_time; t_sync keeps the time of the reset
device_open_sync(p) ==
    /\ u[p].pc = "o_sync"
    /\ last_desyncs' = desyncs
    /\ last_start_time_ns' = now
    /\ g_expect' = now
    /\ g_tfixed' = TRUE
    /\ g_sat' = 0
    /\ g_rd' = 0
    /\ g_lost' = FALSE
    /\ u' = [u EXCEPT ![p] = [@ EXCEPT !.pc = "opened", !.t_sync = now]]
    /\ UNCHANGED <<other_vars, ring_vars, desyncs, hb_filters, cfg, signal_buf_m, sess_vars,
                   hw_vars, k, g_pushed, g_returned, g_popped>>

\* kthread_stop(thread), first half: set the stop flag and wake the thread
kthread_stop_request(p, op, next_pc, skip_pc) ==
    IF thread = NULL
    THEN /\ u' = [u EXCEPT ![p] = [@ EXCEPT !.pc = skip_pc, !.op = op]]
         /\ k' = k
    ELSE /\ u' = [u EXCEPT ![p] = [@ EXCEPT !.pc = next_pc, !.target = thread]]
         /\ k' = [k EXCEPT ![thread] = [@ EXCEPT !.stop = TRUE]]

\* kthread_stop(thread), second half: wait for the thread's exit, and release
\* its task_struct (a thread already released by another caller is a
\* use-after-free, taken here as returning at once)
kthread_stop_joined(p) ==
    /\ k[u[p].target].pc \in {"exited", "none"}
    /\ k' = [k EXCEPT ![u[p].target] = K0]

\* device_open, out_thread: if (thread) kthread_stop(thread)
device_open_stop(p) ==
    /\ u[p].pc = "o_stop"
    /\ kthread_stop_request(p, "open", "o_join", "o_dec")
    /\ UNCHANGED <<other_vars, ring_vars, sync_vars, hb_filters, cfg, signal_buf_m, sess_vars,
                   hw_vars, hist_vars>>

\* device_open, out_thread: kthread_stop returns; thread = NULL
device_open_join(p) ==
    /\ u[p].pc = "o_join"
    /\ kthread_stop_joined(p)
    /\ thread' = NULL
    /\ u' = [u EXCEPT ![p] = [@ EXCEPT !.pc = "o_dec", !.target = NULL]]
    /\ UNCHANGED <<other_vars, ring_vars, sync_vars, hb_filters, cfg, signal_buf_m, open_count,
                   hw_vars, hist_vars>>

\* device_open, out_pm and out_open_count: lockamp_pm_put; --open_count
device_open_dec(p) ==
    /\ u[p].pc = "o_dec"
    /\ open_count' = open_count - 1
    /\ u' = [u EXCEPT ![p] = [@ EXCEPT !.pc = "closed"]]
    /\ UNCHANGED <<other_vars, ring_vars, sync_vars, hb_filters, cfg, signal_buf_m, thread,
                   hw_vars, k, hist_vars>>

\* device_release: if (thread) kthread_stop(thread); without a thread,
\* lockamp_pm_put and --open_count follow at once
device_release_stop(p) ==
    /\ u[p].pc = "opened"
    /\ kthread_stop_request(p, "release", "rl_join", "closed")
    /\ open_count' = IF thread = NULL THEN open_count - 1 ELSE open_count
    /\ UNCHANGED <<other_vars, ring_vars, sync_vars, hb_filters, cfg, signal_buf_m, thread,
                   hw_vars, hist_vars>>

\* device_release: kthread_stop returns; thread = NULL; lockamp_pm_put;
\* --open_count
device_release_join(p) ==
    /\ u[p].pc = "rl_join"
    /\ kthread_stop_joined(p)
    /\ thread' = NULL
    /\ open_count' = open_count - 1
    /\ u' = [u EXCEPT ![p] = [@ EXCEPT !.pc = "closed", !.op = "release",
                                       !.target = NULL]]
    /\ UNCHANGED <<other_vars, ring_vars, sync_vars, hb_filters, cfg, signal_buf_m, hw_vars,
                   hist_vars>>

\* ---------------------------------------------------------- specifications
ThreadStep(t) ==
    \/ lockamp_fifo_move_to_sbuf_begin(t)
    \/ lockamp_fifo_pop_sample_site0(t)
    \/ lockamp_fifo_pop_sample_site1(t)
    \/ lockamp_fifo_move_to_sbuf_publish(t)
    \/ fifo_to_sbuf_exit(t)

ReadStep(p) ==
    \/ \E len \in ReadLengths : reader_get_sbuf_snapshot(p, len)
    \/ synchronize_check(p)
    \/ \E copied \in BOOLEAN : chunk_get_info(p, copied)
    \/ \E copied \in BOOLEAN : pop_chunk_to_user_first(p, copied)
    \/ \E copied \in BOOLEAN : pop_chunk_to_user_second(p, copied)

OpenStep(p) ==
    \/ device_open_check(p)
    \/ \E reload \in BOOLEAN, pm_ok \in BOOLEAN : device_open_inc(p, reload, pm_ok)
    \/ \E ok \in BOOLEAN : device_open_create(p, ok)
    \/ \E prio_ok \in BOOLEAN : device_open_wake(p, prio_ok)
    \/ device_open_sync(p)
    \/ device_open_stop(p)
    \/ device_open_join(p)
    \/ device_open_dec(p)

ReleaseStep(p) ==
    \/ device_release_stop(p)
    \/ device_release_join(p)

\* one user process holds the device: the single-reader discipline
Next ==
    \/ HwProduce
    \/ \E t \in Threads : ThreadStep(t)
    \/ OpenStep(1)
    \/ ReadStep(1)
    \/ ReleaseStep(1)

Spec == Init /\ [][Next]_vars

\* ------------------------------------------------- racing opens and closes
\* two user processes open and close the device with no discipline between
\* them; nobody reads
NextOpen ==
    \/ hw_seq < MaxOpenSamples /\ HwProduce
    \/ \E t \in Threads : ThreadStep(t)
    \/ \E p \in Procs : OpenStep(p)
    \/ \E p \in Procs : ReleaseStep(p)

SpecOpen == Init /\ [][NextOpen]_vars

\* ------------------------------------------- the device at its real capacity
\* Each handler runs to completion before the next one starts.  The ring has
\* its real capacity and its slots' contents are left out.  Every drain finds
\* the hardware FIFO full: lockamp_fifo_capacity_n time steps have passed
\* since the drain before it.
InitSeq ==
    /\ ProbeState(LOCKAMP_SIGNAL_BUF_CAPACITY \div sizeof_sample)
    /\ buf = <<>>

\* a faulty lockamp_set_decimation that accepts every factor up to 16
ValidDecimation_up_to_16(value) == value \in 1 .. 16

\* lockamp_set_decimation: the values it accepts
ValidDecimation(value) == value \in {1, 2, 4, 8, 16}

\* ilog2 of a positive value below 2^30
ilog2(value) == CHOOSE e \in 0 .. 29 : 2 ^ e <= value /\ value < 2 ^ (e + 1)

\* lockamp_set_decimation: fir_cycles = min(511, 341 * (1 << hb_filters) / 8 - 6)
FirCycles(hb) == Min(511, (341 * 2 ^ hb) \div 8 - 6)

\* decimation_factor_store and lockamp_set_decimation; no lock is taken
decimation_factor_store(value) ==
    /\ hb_filters' = IF ValidDecimation(value) THEN ilog2(value) ELSE hb_filters
    /\ cfg' = IF ValidDecimation(value)
              THEN [cfg EXCEPT !.fir_cycles = FirCycles(ilog2(value)),
                               !.result = "count"]
              ELSE [cfg EXCEPT !.result = "EINVAL"]
    /\ g_tfixed' = (g_tfixed /\ hb_filters' = hb_filters)
    /\ UNCHANGED <<other_vars, ring_vars, sync_vars, signal_buf_m, sess_vars, hw_vars, k, u,
                   g_pushed, g_returned, g_popped, g_expect, desync_hist>>

\* device_open, run to completion by the only user process
device_open_seq(p) ==
    /\ u[p].pc = "closed"
    /\ IF OpenCountPositive(open_count)
       THEN /\ u' = [u EXCEPT ![p] = [U0 EXCEPT !.op = "open", !.err = "EBUSY"]]
            /\ UNCHANGED <<other_vars, sync_vars, sess_vars, k, time_hist, desync_hist>>
       ELSE /\ open_count' = open_count + 1
            /\ thread' = CHOOSE x \in FreeThreads : \A y \in FreeThreads : x <= y
            /\ k' = [k EXCEPT ![thread'] = [K0 EXCEPT !.pc = "idle"]]
            /\ last_desyncs' = desyncs
            /\ last_start_time_ns' = now
            /\ desyncs' = desyncs
            /\ g_expect' = now
            /\ g_tfixed' = TRUE
            /\ g_sat' = 0
            /\ g_rd' = 0
            /\ g_lost' = FALSE
            /\ u' = [u EXCEPT ![p] = [U0 EXCEPT !.pc = "opened", !.op = "open",
                                                !.t_sync = now]]
    /\ UNCHANGED <<other_vars, ring_vars, hb_filters, cfg, signal_buf_m, hw_vars, g_pushed,
                   g_returned, g_popped>>

\* device_release, run to completion: the thread is stopped and joined
device_release_seq(p) ==
    /\ u[p].pc = "opened"
    /\ thread # NULL
    /\ k' = [k EXCEPT ![thread] = K0]
    /\ thread' = NULL
    /\ open_count' = open_count - 1
    /\ u' = [u EXCEPT ![p] = [@ EXCEPT !.pc = "closed", !.op = "release"]]
    /\ UNCHANGED <<other_vars, ring_vars, sync_vars, hb_filters, cfg, signal_buf_m, hw_vars,
                   hist_vars>>

\* lockamp_fifo_move_to_sbuf run to completion on a full hardware FIFO, tail
\* standing still: st holds head, the Desync Counter and the count of drains
\* that met the saturated ring
lockamp_fifo_move_to_sbuf_seq(st) ==
    LET space == CIRC_SPACE(st.head, tail, capacity_n)
        bounded_size_n == BoundedSizeN(space, lockamp_fifo_capacity_n)
    IN [head |-> Mask(st.head + bounded_size_n, capacity_n - 1),
        desyncs |-> IF space = 0 THEN st.desyncs + 1 ELSE st.desyncs,
        sat |-> IF CIRC_CNT(st.head, tail, capacity_n) = capacity_n - 1
                THEN st.sat + 1 ELSE st.sat]

RECURSIVE fifo_to_sbuf_iterations(_, _)
\* n iterations of fifo_to_sbuf from st, stopping short once the Desync
\* Counter has passed its cap
fifo_to_sbuf_iterations(n, st) ==
    IF n = 0 \/ st.desyncs > MaxDesyncs THEN st
    ELSE fifo_to_sbuf_iterations(n - 1, lockamp_fifo_move_to_sbuf_seq(st))

\* the thread completes n iterations between two calls of the user process
fifo_to_sbuf_seq(t, n) ==
    LET end == fifo_to_sbuf_iterations(
                   n, [head |-> head, desyncs |-> desyncs, sat |-> g_sat])
    IN /\ k[t].pc = "idle"
       /\ hw_seq + n * lockamp_fifo_capacity_n
             <= MaxSeqDrains * lockamp_fifo_capacity_n
       /\ end.desyncs <= MaxDesyncs
       /\ hw_seq' = hw_seq + n * lockamp_fifo_capacity_n
       /\ now' = now + ExactDuration(lockamp_get_time_step_ns(hb_filters),
                                     n * lockamp_fifo_capacity_n)
       /\ desyncs' = end.desyncs
       /\ g_sat' = end.sat
       /\ head' = end.head
       /\ UNCHANGED <<other_vars, probe, capacity_n, buf, tail, last_desyncs, last_start_time_ns,
                      hb_filters, cfg, signal_buf_m, sess_vars, fifo, k, u, g_pushed,
                      g_returned, g_popped, time_hist, g_rd, g_lost>>

\* iterations the thread completes between two user calls: 25 are the fewest
\* after which the resident samples span more than 2^SizeBits ns at
\* decimation 16, and 25 + 8 saturate the ring and meet it saturated once
SeqIterations == {8, 25}

\* lengths a caller passes to read() in the sequential model: room for no
\* sample, and for a whole ring
ReadLengthsSeq ==
    {sizeof_chunk_header,
     sizeof_chunk_header
        + (LOCKAMP_SIGNAL_BUF_CAPACITY \div sizeof_sample - 1) * sizeof_sample}

\* device_read into a writable buffer of at least sizeof(struct chunk_header)
\* bytes, run to completion
device_read_seq(p, len) ==
    LET size_n == CIRC_CNT(head, tail, capacity_n)
        snap == [head |-> head, tail |-> tail, size_n |-> size_n]
        counted == IF SnapshotFull(size_n) THEN desyncs + 1 ELSE desyncs
        differ == counted # last_desyncs
        start == IF differ THEN now ELSE last_start_time_ns
        data_size_n == DataSizeN(len, size_n)
        info == [last_start_time_ns |-> start,
                 time_step_ns |-> lockamp_get_time_step_ns(hb_filters),
                 data_size_n |-> data_size_n]
    IN /\ u[p].pc = "opened"
       /\ Saturated => desyncs < MaxDesyncs
       /\ desyncs' = counted
       /\ last_desyncs' = counted
       /\ g_sat' = 0
       /\ g_rd' = 0
       /\ g_lost' = FALSE
       /\ tail' = Mask(tail + data_size_n, capacity_n - 1)
       /\ g_popped' = g_popped + data_size_n
       /\ last_start_time_ns' = start + lockamp_get_duration_ns(hb_filters, data_size_n)
       /\ g_expect' = (IF differ THEN now ELSE g_expect)
                          + ExactDuration(info.time_step_ns, data_size_n)
       /\ g_tfixed' = IF differ THEN TRUE ELSE g_tfixed
       /\ u' = [u EXCEPT ![p] =
                  [U0 EXCEPT !.pc = "opened", !.op = "read", !.len = len,
                             !.snap0 = snap, !.info = info, !.resync = differ,
                             !.t_sync = IF differ THEN now ELSE 0,
                             !.ret = sizeof_chunk_header + data_size_n * sizeof_sample,
                             !.usr_bytes = sizeof_chunk_header
                                           + data_size_n * sizeof_sample]]
       /\ UNCHANGED <<other_vars, probe, capacity_n, buf, head, hb_filters, cfg, signal_buf_m, sess_vars,
                      hw_vars, k, g_pushed, g_returned>>

NextSeq ==
    \/ \E value \in {3, 16} : decimation_factor_store(value)
    \/ device_open_seq(1)
    \/ device_release_seq(1)
    \/ \E t \in Threads, n \in SeqIterations : fifo_to_sbuf_seq(t, n)
    \/ \E len \in ReadLengthsSeq : device_read_seq(1, len)

SpecSeq == InitSeq /\ [][NextSeq]_vars

\* device_read into a writable buffer with room for the whole ring
ReadStepCfg(p) ==
    \/ reader_get_sbuf_snapshot(
           p, sizeof_chunk_header + (2 ^ CapLog2) * sizeof_sample)
    \/ synchronize_check(p)
    \/ chunk_get_info(p, TRUE)
    \/ pop_chunk_to_user_first(p, TRUE)
    \/ pop_chunk_to_user_second(p, TRUE)

\* ------------------------------------------------------- fair scheduling
\* One session, with the thread and the reader step by step.  The scheduler
\* runs every thread that can take a step (the kthread has SCHED_FIFO priority
\* 99), and a kthread_stop whose thread has exited returns.  Nothing obliges
\* the user process to read or to close.
NextLive ==
    \/ hw_seq < MaxLiveSamples /\ HwProduce
    \/ \E t \in Threads : ThreadStep(t)
    \/ device_open_seq(1)
    \/ ReadStepCfg(1)
    \/ ReleaseStep(1)

SpecLive ==
    /\ Init
    /\ [][NextLive]_vars
    /\ \A t \in Threads : WF_vars(ThreadStep(t))
    /\ WF_vars(device_release_join(1))

\* --------------------------------- settings, power management and write()
\* While a session runs, with the thread draining and the process reading step
\* by step, the attribute stores, the suspend and resume callbacks and
\* write() are called at any point.
\* the owner of signal_buf_m between lockamp_pm_suspend and lockamp_pm_resume
PmOwner == 3

\* indices of lockamp_fir_coefs that strn_to_fir_filter can deliver
FirFilters == {0, 1}

\* fir_filter_store: strn_to_fir_filter and lockamp_set_filter_coefficients;
\* no lock is taken
fir_filter_store(i) ==
    /\ cfg' = IF i \in FirFilters
              THEN [cfg EXCEPT !.fir_filter = i, !.result = "count"]
              ELSE [cfg EXCEPT !.result = "EINVAL"]
    /\ UNCHANGED <<other_vars, ring_vars, sync_vars, hb_filters, signal_buf_m, sess_vars,
                   hw_vars, k, u, hist_vars>>

\* sample_multiplier_store: the assignment under signal_buf_m
sample_multiplier_store(value) ==
    /\ signal_buf_m = NULL
    /\ cfg' = [cfg EXCEPT !.sample_multiplier = value, !.result = "count"]
    /\ UNCHANGED <<other_vars, ring_vars, sync_vars, hb_filters, signal_buf_m, sess_vars,
                   hw_vars, k, u, hist_vars>>

\* a faulty suspend callback that does not wait for the lock
lockamp_pm_suspend_no_wait ==
    /\ signal_buf_m # PmOwner
    /\ signal_buf_m' = PmOwner
    /\ UNCHANGED <<other_vars, ring_vars, sync_vars, hb_filters, cfg, sess_vars, hw_vars,
                   k, u, hist_vars>>

\* lockamp_pm_suspend: mutex_lock(&lockamp->signal_buf_m), kept on return
lockamp_pm_suspend ==
    /\ signal_buf_m = NULL
    /\ signal_buf_m' = PmOwner
    /\ UNCHANGED <<other_vars, ring_vars, sync_vars, hb_filters, cfg, sess_vars, hw_vars,
                   k, u, hist_vars>>

\* lockamp_pm_resume: msleep(10) and mutex_unlock(&lockamp->signal_buf_m)
lockamp_pm_resume ==
    /\ signal_buf_m = PmOwner
    /\ signal_buf_m' = NULL
    /\ UNCHANGED <<other_vars, ring_vars, sync_vars, hb_filters, cfg, sess_vars, hw_vars,
                   k, u, hist_vars>>

\* a faulty write() that accepts the caller's bytes
device_write_accepts(p, len) ==
    /\ u[p].pc = "opened"
    /\ u' = [u EXCEPT ![p] = [U0 EXCEPT !.pc = "opened", !.op = "write",
                                        !.len = len, !.ret = len]]
    /\ UNCHANGED <<other_vars, ring_vars, sync_vars, hb_filters, cfg, signal_buf_m,
                   sess_vars, hw_vars, k, hist_vars>>

\* device_write: return -EPERM
device_write(p, len) ==
    /\ u[p].pc = "opened"
    /\ u' = [u EXCEPT ![p] = [U0 EXCEPT !.pc = "opened", !.op = "write",
                                        !.len = len, !.err = "EPERM"]]
    /\ UNCHANGED <<other_vars, ring_vars, sync_vars, hb_filters, cfg, signal_buf_m,
                   sess_vars, hw_vars, k, hist_vars>>

\* a call of one of the attribute stores
StoreStep ==
    \/ \E value \in {1, 2, 3} : decimation_factor_store(value)
    \/ \E i \in {1, 2} : fir_filter_store(i)
    \/ \E value \in {1, 2} : sample_multiplier_store(value)

NextCfg ==
    \/ hw_seq < MaxCfgSamples /\ HwProduce
    \/ \E t \in Threads : ThreadStep(t)
    \/ device_open_seq(1)
    \/ ReleaseStep(1)
    \/ ReadStepCfg(1)
    \/ StoreStep
    \/ lockamp_pm_suspend
    \/ lockamp_pm_resume
    \/ \E len \in {0, sizeof_sample} : device_write(1, len)

SpecCfg == Init /\ [][NextCfg]_vars

\* ------------------------------------------------ the settings on their own
\* The attribute stores and the pm callbacks on a device whose thread is not
\* scheduled: every decimation factor the hardware has is stored, and others
\* around them.
StoreFactors == {0, 1, 2, 3, 4, 8, 12, 16, 17, 32}

NextAttr ==
    \/ \E value \in StoreFactors : decimation_factor_store(value)
    \/ \E i \in {1, 2} : fir_filter_store(i)
    \/ \E value \in {1, 2} : sample_multiplier_store(value)
    \/ lockamp_pm_suspend
    \/ lockamp_pm_resume
    \/ hw_seq < MaxCfgSamples /\ HwProduce
    \/ device_open_seq(1)
    \/ device_release_seq(1)

SpecAttr == Init /\ [][NextAttr]_vars

\* ------------------------------------------------------ the thread's sleep
\* The iterations of fifo_to_sbuf on a hardware FIFO that holds no sample:
\* the drain moves nothing, and the thread sleeps for a time computed from the
\* decimation factor and the duration of the drain.
Max(a, b) == IF a > b THEN a ELSE b

\* LONG_MAX where long has SizeBits = 32 bits
LONG_MAX == 2147483647

\* a / b in C for b > 0: the quotient truncated toward zero
CDiv(a, b) == IF a >= 0 THEN a \div b ELSE -((-a) \div b)

\* (long)x for a u64 x, long being 32 bits wide: the low 32 bits of x, as a
\* two's-complement value
ToLong(x) == IF x.hi % 2 = 0 THEN x.lo ELSE (x.lo - LONG_MAX) - 1

\* x < 0 for a u64 x: no value of an unsigned type is below 0
U64LessThanZero(x) == FALSE

\* lockamp_get_read_delay_ns: LOCKAMP_FIFO_CAPACITY_N / 2 * time step
lockamp_get_read_delay_ns(hb) ==
    (lockamp_fifo_capacity_n \div 2) * lockamp_get_time_step_ns(hb)

\* sleep_until_fifo_half_full: sleep_upper_us
SleepUpperUs(target_sleep_ns, lockamp_fifo_read_duration) ==
    Max(CDiv(target_sleep_ns - ToLong(lockamp_fifo_read_duration), 1000), 3000)

\* sleep_until_fifo_half_full: sleep_lower_us
SleepLowerUs(sleep_upper_us) == Max(sleep_upper_us - 10000, 2000)

\* durations of a drain (end - start of fifo_to_sbuf, mutex_lock included),
\* in ns: none, around 1 us, those that leave 5 ms, 3 ms and just under
\* 3 ms of the half-FIFO time at decimation 1, the half-FIFO time at
\* decimation 16, 100 ms, LONG_MAX, and 1 ms short of 2^32
DrainDurations ==
    {[hi |-> 0, lo |-> 0], [hi |-> 0, lo |-> 999], [hi |-> 0, lo |-> 1000],
     [hi |-> 0, lo |-> 586944], [hi |-> 0, lo |-> 2586944],
     [hi |-> 0, lo |-> 2587944], [hi |-> 0, lo |-> 89391104],
     [hi |-> 0, lo |-> 100000000], [hi |-> 0, lo |-> LONG_MAX],
     [hi |-> 1, lo |-> LONG_MAX - 999999]}

\* values an unsigned long that was never assigned may hold
UninitializedLongs == {0, 1000000000}

\* -EINVAL
EINVAL == -22

\* One iteration of fifo_to_sbuf that finds the hardware FIFO empty and the
\* ring with space, so that lockamp_fifo_move_to_sbuf moves nothing; the
\* drain has taken duration; delay_err is whether the call of
\* lockamp_get_read_delay_ns reports an error, and leaves target_sleep_ns
\* with the value uninitialized that it had
fifo_to_sbuf_idle_iteration(t, duration, delay_err, uninitialized) ==
    LET target_sleep_ns == IF delay_err THEN uninitialized
                           ELSE lockamp_get_read_delay_ns(hb_filters)
        \* u64 ret; if (ret < 0) return ret
        ret == IF delay_err THEN EINVAL ELSE 0
        returns_early == U64LessThanZero(ret)
        sleep_upper_us == SleepUpperUs(target_sleep_ns, duration)
        \* lockamp_fifo_read_delay (u64): ret, or after_sleep_ns - before_sleep_ns
        lockamp_fifo_read_delay == IF returns_early THEN ret ELSE sleep_upper_us * 1000
        fallback == U64LessThanZero(lockamp_fifo_read_delay)
    IN /\ k[t].pc = "idle"
       /\ ~kthread_should_stop(t)
       /\ signal_buf_m = NULL
       /\ lockamp_fifo_size_n = 0
       /\ SignalBufSpaceN > 0
       /\ k' = [k EXCEPT ![t] =
                  [@ EXCEPT !.read_duration = duration,
                            !.sleep = [err |-> delay_err,
                                       target_ns |-> target_sleep_ns,
                                       slept |-> ~returns_early,
                                       lower_us |-> IF returns_early THEN 0
                                                    ELSE SleepLowerUs(sleep_upper_us),
                                       upper_us |-> IF returns_early THEN 0
                                                    ELSE sleep_upper_us,
                                       warned |-> fallback,
                                       msleep_ms |-> IF fallback THEN 250 ELSE 0]]]
       /\ UNCHANGED <<other_vars, ring_vars, sync_vars, hb_filters, cfg, signal_buf_m,
                      sess_vars, hw_vars, u, hist_vars>>

NextSleep ==
    \/ \E value \in StoreFactors : decimation_factor_store(value)
    \/ device_open_seq(1)
    \/ device_release_seq(1)
    \/ \E t \in Threads, duration \in DrainDurations, delay_err \in BOOLEAN,
          uninitialized \in UninitializedLongs :
          fifo_to_sbuf_idle_iteration(t, duration, delay_err, uninitialized)

SpecSleep == Init /\ [][NextSleep]_vars

\* ------------------------------------------------- lockamp_probe and remove
\* The platform device is bound with a signal buffer of some size in bytes
\* (LOCKAMP_SIGNAL_BUF_CAPACITY is one of the sizes), used by sessions whose
\* handlers run to completion, and removed.
\* a faulty check that accepts every capacity but 0
is_power_of_2_nonzero(n) == n # 0

\* is_power_of_2 (include/linux/log2.h): n != 0 && ((n & (n - 1)) == 0)
is_power_of_2(n) == n # 0 /\ BitAnd(n, n - 1) = 0

\* sizes of the signal buffer in bytes: 3, 4 and 5 samples, 4 samples and a
\* half, and the driver's
SignalBufCapacities ==
    {3 * sizeof_sample, 4 * sizeof_sample, 4 * sizeof_sample + 16,
     5 * sizeof_sample, LOCKAMP_SIGNAL_BUF_CAPACITY}

\* the state before lockamp_probe
InitProbe ==
    /\ probe = Probe0
    /\ capacity_n = 0
    /\ head = 0
    /\ tail = 0
    /\ buf = <<>>
    /\ desyncs = 0
    /\ last_desyncs = 0
    /\ last_start_time_ns = 0
    /\ hb_filters = 0
    /\ cfg = Cfg0
    /\ signal_buf_m = NULL
    /\ open_count = 0
    /\ thread = NULL
    /\ fifo = <<>>
    /\ hw_seq = 0
    /\ now = 0
    /\ k = [t \in Threads |-> K0]
    /\ u = [p \in Procs |-> U0]
    /\ g_pushed = <<>>
    /\ g_returned = <<>>
    /\ g_expect = 0
    /\ g_tfixed = TRUE
    /\ g_popped = 0
    /\ g_sat = 0
    /\ g_rd = 0
    /\ g_lost = FALSE
    /\ OtherInit

\* lockamp_probe with a signal buffer of capacity bytes; alloc_ok is whether
\* vmalloc delivers the buffer
lockamp_probe(capacity, alloc_ok) ==
    /\ probe.state = "none"
    /\ capacity_n' = capacity \div sizeof_sample
    /\ head' = 0
    /\ tail' = 0
    /\ probe' = IF ~alloc_ok
                THEN [state |-> "failed", ret |-> "ENOMEM", vmalloc |-> FALSE]
                ELSE IF ~is_power_of_2(capacity_n')
                THEN [state |-> "failed", ret |-> "EINVAL", vmalloc |-> FALSE]
                ELSE Probed
    /\ UNCHANGED <<other_vars, buf, sync_vars, hb_filters, cfg, signal_buf_m, sess_vars,
                   hw_vars, k, u, hist_vars>>

\* lockamp_remove: vfree(lockamp->signal_buf.buf)
lockamp_remove ==
    /\ probe.state = "bound"
    /\ u[1].pc = "closed"
    /\ probe' = [state |-> "removed", ret |-> "", vmalloc |-> FALSE]
    /\ UNCHANGED <<other_vars, capacity_n, buf, head, tail, sync_vars, hb_filters, cfg,
                   signal_buf_m, sess_vars, hw_vars, k, u, hist_vars>>

\* the handlers are called on a bound device only
NextProbe ==
    \/ \E capacity \in SignalBufCapacities, alloc_ok \in BOOLEAN :
           lockamp_probe(capacity, alloc_ok)
    \/ probe.state = "bound" /\ device_open_seq(1)
    \/ probe.state = "bound" /\ device_release_seq(1)
    \/ /\ probe.state = "bound"
       /\ \E t \in Threads, n \in SeqIterations : fifo_to_sbuf_seq(t, n)
    \/ /\ probe.state = "bound"
       /\ \E len \in ReadLengthsSeq : device_read_seq(1, len)
    \/ lockamp_remove

SpecProbe == InitProbe /\ [][NextProbe]_vars

\* =================================================================== claims
\* the sample a slot holds is complete: both sites come from one hardware
\* sample
Complete(smp) == smp[1] = smp[2] /\ smp[1] # 0

\* the hardware samples a sequence of ring samples came from
Ids(smps) == [i \in DOMAIN smps |-> smps[i][1]]

\* the slots [tail, head), oldest first
Resident ==
    [i \in 1 .. CIRC_CNT(head, tail, capacity_n) |->
        buf[Mask(tail + i - 1, capacity_n - 1)]]

\* ------------------------------------------ the latest_adc_samples attribute
\* acquisitions of ADC samples in one run
MaxAdcAcquisitions == 3

LOCKAMP_ADC_SAMPLES_SIZE_S32 == 16384
sizeof_s32 == 4
LOCKAMP_ADC_SAMPLES_SIZE == LOCKAMP_ADC_SAMPLES_SIZE_S32 * sizeof_s32
\* a binary attribute is read in pieces of at most PAGE_SIZE bytes
PAGE_SIZE == 4096

\* a faulty latest_adc_samples_read that buffers new samples for every piece
AcquireAt_every_piece(offset) == TRUE

\* latest_adc_samples_read: 0 == offset, the start of a request
AcquireAt(offset) == 0 = offset

\* memory_read_from_buffer: the number of bytes copied from offset
memory_read_from_buffer(count, offset, available) ==
    IF offset >= available THEN 0 ELSE Min(count, available - offset)

\* latest_adc_samples_read by process p, which reads the attribute from its
\* start to its end in pieces of count bytes; the whole handler runs under
\* adc_buf_m.  lockamp_get_adc_samples overwrites all of adc_buffer.
latest_adc_samples_read(p, count) ==
    LET r == IF adc_rd[p].done THEN AdcRd0 ELSE adc_rd[p]
        acquire == AcquireAt(r.offset)
        buffer == IF acquire THEN adc_acq + 1 ELSE adc_buffer
        result == memory_read_from_buffer(count, r.offset, LOCKAMP_ADC_SAMPLES_SIZE)
    IN /\ acquire => adc_acq < MaxAdcAcquisitions
       /\ adc_buffer' = buffer
       /\ adc_acq' = IF acquire THEN adc_acq + 1 ELSE adc_acq
       /\ adc_rd' = [q \in Procs |->
             IF q = p
             THEN [offset |-> r.offset + result,
                   from |-> IF result > 0 THEN r.from \cup {buffer} ELSE r.from,
                   raced |-> r.raced,
                   done |-> result = 0]
             ELSE IF acquire /\ ~adc_rd[q].done /\ adc_rd[q].offset > 0
                  THEN [adc_rd[q] EXCEPT !.raced = TRUE]
                  ELSE adc_rd[q]]
       /\ UNCHANGED <<ring_vars, sync_vars, hb_filters, cfg, signal_buf_m, sess_vars,
                      hw_vars, k, u, hist_vars, step_vars, fifo_rd, kbufs>>

NextAdc == \E p \in Procs : latest_adc_samples_read(p, PAGE_SIZE)

SpecAdc == Init /\ [][NextAdc]_vars

\* --------------------------------------------------- the stepper velocity ramp
\* stepper_set_target_velocity calls in one run
MaxTargetChanges == 3

\* the velocity configurations a stepper driver registers with: tmc2100_cfg,
\* a faster ramp, a ramp with rate_of_change 0, and a range without 0
StepperCfgs ==
    {tmc2100_cfg,
     [rate_of_change |-> 3, shift_delay_ms |-> 10, min |-> -4, max |-> 7],
     [rate_of_change |-> 0, shift_delay_ms |-> 10, min |-> -2, max |-> 2],
     [rate_of_change |-> 2, shift_delay_ms |-> 10, min |-> 1, max |-> 5]}

\* the velocities written to the velocity_target attribute
StepperTargets == {-101, -100, -5, -1, 0, 2, 3, 7, 8, 100, 101}

\* <linux/kernel.h> clamp(val, lo, hi): min(max(val, lo), hi)
clamp(val, lo, hi) == Min(Max(val, lo), hi)

\* a faulty ramp that takes the whole difference in one step
StepperDelta_unclamped(dev) == dev.velocity_target - dev.velocity_current

\* stepper_reach_target_velocity: delta
StepperDelta(dev) ==
    clamp(dev.velocity_target - dev.velocity_current,
          -dev.cfg.rate_of_change, dev.cfg.rate_of_change)

\* stepper_validate_velocity
stepper_validate_velocity(dev, vel) ==
    IF dev.cfg.min <= vel /\ vel <= dev.cfg.max THEN 0 ELSE EINVAL

\* a faulty stepper_set_target_velocity that never queues the work
AlreadyShifting_always(dev) == TRUE

\* stepper_set_target_velocity: if (stepdev->velocity_shifting)
AlreadyShifting(dev) == dev.velocity_shifting

\* queue_delayed_work: a work item already pending is left as it is
queue_delayed_work(dwork) == [dwork EXCEPT !.pending = TRUE]

\* stepper_device_register with the configuration c
stepper_device_register(c) ==
    /\ ~stepdev.registered
    /\ stepdev' = [StepDev0 EXCEPT !.registered = TRUE, !.cfg = c]
    /\ UNCHANGED <<ring_vars, sync_vars, hb_filters, cfg, signal_buf_m, sess_vars,
                   hw_vars, k, u, hist_vars, adc_vars, g_step, fifo_rd, kbufs>>

\* stepper_set_target_velocity(stepdev, vel); from the validation on it runs
\* under velocity_mutex
stepper_set_target_velocity(vel) ==
    LET result == stepper_validate_velocity(stepdev, vel)
        queue == /\ stepdev.velocity_current # vel
                 /\ ~AlreadyShifting(stepdev)
    IN /\ stepdev.registered
       /\ g_step.sets < MaxTargetChanges
       /\ stepdev' =
             IF result # 0 THEN stepdev
             ELSE [stepdev EXCEPT
                      !.velocity_target = vel,
                      !.velocity_shifting = IF queue THEN TRUE ELSE @,
                      !.velocity_dwork = IF queue THEN queue_delayed_work(@) ELSE @]
       /\ g_step' = [g_step EXCEPT !.sets = @ + 1, !.vel = vel, !.result = result]
       /\ UNCHANGED <<ring_vars, sync_vars, hb_filters, cfg, signal_buf_m, sess_vars,
                      hw_vars, k, u, hist_vars, adc_vars, fifo_rd, kbufs>>

\* the delay of velocity_dwork has passed and a worker of stepper_workqueue
\* takes it: the pending bit is cleared before the function is called
velocity_dwork_start ==
    /\ stepdev.velocity_dwork.pending
    /\ ~stepdev.velocity_dwork.running
    /\ stepdev' = [stepdev EXCEPT !.velocity_dwork = [pending |-> FALSE, running |-> TRUE]]
    /\ UNCHANGED <<ring_vars, sync_vars, hb_filters, cfg, signal_buf_m, sess_vars,
                   hw_vars, k, u, hist_vars, adc_vars, g_step, fifo_rd, kbufs>>

\* stepper_reach_target_velocity, the function of velocity_dwork, under
\* velocity_mutex
stepper_reach_target_velocity ==
    LET velocity_current == stepdev.velocity_current + StepperDelta(stepdev)
        reached == velocity_current = stepdev.velocity_target
    IN /\ stepdev.velocity_dwork.running
       /\ stepdev' = [stepdev EXCEPT
             !.velocity_current = velocity_current,
             !.velocity_shifting = IF reached THEN FALSE ELSE @,
             !.velocity_dwork = IF reached
                                THEN [@ EXCEPT !.running = FALSE]
                                ELSE [queue_delayed_work(@) EXCEPT !.running = FALSE]]
       /\ g_step' = [g_step EXCEPT !.prev = g_step.cur, !.cur = velocity_current]
       /\ UNCHANGED <<ring_vars, sync_vars, hb_filters, cfg, signal_buf_m, sess_vars,
                      hw_vars, k, u, hist_vars, adc_vars, fifo_rd, kbufs>>

NextStepper ==
    \/ \E c \in StepperCfgs : stepper_device_register(c)
    \/ \E vel \in StepperTargets : stepper_set_target_velocity(vel)
    \/ velocity_dwork_start
    \/ stepper_reach_target_velocity

SpecStepper == Init /\ [][NextStepper]_vars

\* the stepper under fair scheduling: the delay of a queued work item passes
\* and stepper_workqueue runs it.  Nothing obliges anybody to write the
\* velocity_target attribute.
SpecStepperLive ==
    /\ Init
    /\ [][NextStepper]_vars
    /\ WF_vars(velocity_dwork_start)
    /\ WF_vars(stepper_reach_target_velocity)

\* ------------------------------------ device_read without the signal buffer
\* The driver built without CONFIG_SBT_LOCKAMP_USE_SBUF: no kthread and no
\* ring, device_read pops the hardware FIFO into a vmalloc'ed buffer.  The
\* file is open; process 1 reads.
\* read buffers that may be live at once
MaxKbufs == 3

\* lengths a caller passes to read(): room for no sample, for one, and for
\* more than the hardware FIFO holds
ReadLengthsFifo ==
    {sizeof_sample - 1, sizeof_sample, (HwFifoDepth + 1) * sizeof_sample}

\* the record of a process when device_read returns
FifoReturned(r) == [r EXCEPT !.pc = "idle", !.kbuf = FALSE, !.popped = <<>>]

\* device_read: lockamp_pm_get, and the bounds of the read
device_read_fifo_bounds(p, length, pm_ok) ==
    /\ fifo_rd[p].pc = "idle"
    /\ fifo_rd' = [fifo_rd EXCEPT ![p] =
          IF ~pm_ok
          THEN [FifoRd0 EXCEPT !.op = "read", !.err = "EFAULT"]
          ELSE [FifoRd0 EXCEPT !.op = "read", !.pc = "alloc",
                   !.bounded_size_n = Min(lockamp_fifo_size_n, length \div sizeof_sample)]]
    /\ UNCHANGED <<ring_vars, sync_vars, hb_filters, cfg, signal_buf_m, sess_vars,
                   hw_vars, k, u, hist_vars, adc_vars, step_vars, kbufs>>

\* device_read: kbuf = vmalloc(bounded_size); vmalloc of 0 bytes returns NULL
device_read_fifo_vmalloc(p, alloc_ok) ==
    LET bounded_size == fifo_rd[p].bounded_size_n * sizeof_sample
        ok == alloc_ok /\ bounded_size > 0
    IN /\ fifo_rd[p].pc = "alloc"
       /\ ok => kbufs < MaxKbufs
       /\ kbufs' = IF ok THEN kbufs + 1 ELSE kbufs
       /\ fifo_rd' = [fifo_rd EXCEPT ![p] =
             IF ok THEN [@ EXCEPT !.pc = "pop", !.kbuf = TRUE]
             ELSE FifoReturned([@ EXCEPT !.err = "ENOMEM"])]
       /\ UNCHANGED <<ring_vars, sync_vars, hb_filters, cfg, signal_buf_m, sess_vars,
                      hw_vars, k, u, hist_vars, adc_vars, step_vars>>

\* device_read: synchronize, and the loop of lockamp_fifo_pop_sample into kbuf
device_read_fifo_pop(p) ==
    LET n == fifo_rd[p].bounded_size_n
        differ == desyncs # last_desyncs
    IN /\ fifo_rd[p].pc = "pop"
       /\ last_start_time_ns' = IF differ THEN now ELSE last_start_time_ns
       /\ g_expect' = IF differ THEN now ELSE g_expect
       /\ g_tfixed' = IF differ THEN TRUE ELSE g_tfixed
       /\ last_desyncs' = desyncs
       /\ fifo' = SubSeq(fifo, n + 1, Len(fifo))
       /\ fifo_rd' = [fifo_rd EXCEPT ![p] =
             [@ EXCEPT !.pc = "copy", !.popped = SubSeq(fifo, 1, n)]]
       /\ UNCHANGED <<ring_vars, desyncs, hb_filters, cfg, signal_buf_m, sess_vars,
                      hw_seq, now, k, u, g_pushed, g_returned, g_popped, desync_hist,
                      adc_vars, step_vars, kbufs>>

\* device_read: copy_to_user(buffer, kbuf, bounded_size), and the way out:
\* "goto out_kbuf" (vfree, then out_pm) after a fault, "goto out_pm" after
\* the copy
device_read_fifo_copy(p, copied) ==
    LET freed == ~copied
    IN /\ fifo_rd[p].pc = "copy"
       /\ kbufs' = IF freed THEN kbufs - 1 ELSE kbufs
       /\ fifo_rd' = [fifo_rd EXCEPT ![p] =
             IF copied
             THEN FifoReturned([@ EXCEPT !.ret = fifo_rd[p].bounded_size_n * sizeof_sample])
             ELSE FifoReturned([@ EXCEPT !.err = "EFAULT"])]
       /\ UNCHANGED <<ring_vars, sync_vars, hb_filters, cfg, signal_buf_m, sess_vars,
                      hw_vars, k, u, hist_vars, adc_vars, step_vars>>

NextFifoRead ==
    \/ HwProduce
    \/ \E length \in ReadLengthsFifo, pm_ok \in BOOLEAN :
           device_read_fifo_bounds(1, length, pm_ok)
    \/ \E alloc_ok \in BOOLEAN : device_read_fifo_vmalloc(1, alloc_ok)
    \/ device_read_fifo_pop(1)
    \/ \E copied \in BOOLEAN : device_read_fifo_copy(1, copied)

SpecFifoRead == Init /\ [][NextFifoRead]_vars

\* ----------------------------------------------------------------------- C1
\* C1: under every interleaving of drains and pops, the number of resident
\* samples (head - tail) mod capacity is the number of samples pushed and not
\* yet released, never exceeds capacity - 1, and available space + occupied
\* count = capacity - 1.
C1_NoOverrun ==
    LET count == CIRC_CNT(head, tail, capacity_n)
        space == CIRC_SPACE(head, tail, capacity_n)
    IN /\ count = Len(g_pushed) - g_popped
       /\ count <= capacity_n - 1
       /\ space + count = capacity_n - 1

\* the ring is saturated and has wrapped, while a drain and a read are under way
C1_Witness ==
    /\ CIRC_CNT(head, tail, capacity_n) = capacity_n - 1
    /\ head < tail
    /\ g_popped > 0
    /\ \E t \in Threads : k[t].pc = "drain"
    /\ u[1].pc = "r_pop1"

\* ----------------------------------------------------------------------- C2
\* C2: no torn reads: every slot in [tail, head) holds a completely written
\* sample, so every sample a reader copies under a snapshot is complete; and
\* the slot the producer is writing is never one of [tail, head).
C2_NoTornReads ==
    /\ \A i \in DOMAIN Resident : Complete(Resident[i])
    /\ \A i \in DOMAIN u[1].data : Complete(u[1].data[i])
    /\ \A i \in DOMAIN g_returned : Complete(g_returned[i])
    /\ \A t \in Threads :
          (k[t].pc = "drain" /\ k[t].left > 0) =>
             CIRC_CNT(k[t].head, tail, capacity_n)
                >= CIRC_CNT(head, tail, capacity_n)

\* the producer has written half of a sample into a slot that held an older
\* sample, while the reader holds copied samples of an unfinished read
C2_Witness ==
    /\ \E t \in Threads :
          /\ k[t].pc = "drain"
          /\ k[t].site = 1
          /\ buf[k[t].head][2] # 0
          /\ buf[k[t].head][1] # buf[k[t].head][2]
    /\ u[1].pc = "r_pop2"
    /\ u[1].data # <<>>

\* ----------------------------------------------------------------------- C3
\* C3: every sample pushed into the ring is returned to the reader exactly
\* once and in push order: at every moment the samples returned so far,
\* followed by those the read under way has copied and by those still
\* resident, are exactly the samples pushed.
C3_ExactlyOnce ==
    Ids(g_returned) \o Ids(u[1].data) \o Ids(Resident) = g_pushed

\* ----------------------------------------------------------------------- C4
\* C4: while the time step stays fixed and no desync is detected,
\* last_start_time_ns is its value at the session's last reset plus
\* T * (k1 + ... + kn) exactly, k1 .. kn being the samples the session's
\* successful reads returned since.
C4_ExactTimeline == g_tfixed => last_start_time_ns = g_expect

C5_WitnessEmpty ==
    /\ u[1].pc = "opened"
    /\ u[1].op = "read"
    /\ u[1].err = ""
    /\ u[1].snap0.size_n = 0
    /\ u[1].len > sizeof_chunk_header
    /\ u[1].ret = sizeof_chunk_header

\* a read has returned successfully and nothing has run since but drains
ReadReturned(p) == u[p].pc = "opened" /\ u[p].op = "read" /\ u[p].err = ""

\* ----------------------------------------------------------------------- C6
\* C6: a successful read that returns k samples returns 16 + 32 * k bytes,
\* advances tail by k modulo capacity, and advances last_start_time_ns by
\* k * time_step_ns.
C6_ReadAdvance ==
    ReadReturned(1) =>
       LET size_n == u[1].info.data_size_n
       IN /\ u[1].ret = sizeof_chunk_header + sizeof_sample * size_n
          /\ tail = Mask(u[1].snap0.tail + size_n, capacity_n - 1)
          /\ last_start_time_ns = u[1].info.last_start_time_ns
                + ExactDuration(u[1].info.time_step_ns, size_n)

C8_ResyncHeader ==
    (ReadReturned(1) /\ u[1].resync) =>
       /\ u[1].info.last_start_time_ns = u[1].t_sync
       /\ last_start_time_ns = u[1].t_sync
             + ExactDuration(u[1].info.time_step_ns, u[1].info.data_size_n)

\* ----------------------------------------------------------------------- C9
\* the Acquisition Threads in existence
LiveThreads == {t \in Threads : k[t].pc \in {"created", "idle", "drain"}}

\* C9: under every interleaving of opens and closes, at most one session is
\* open and at most one Acquisition Thread exists.
C9_SingleSession ==
    /\ Cardinality({p \in Procs : u[p].pc = "opened"}) <= 1
    /\ Cardinality(LiveThreads) <= 1

\* ---------------------------------------------------------------------- C10
\* C10: when device_release has returned and every process that opened the
\* device has closed it, no Acquisition Thread is left (head is advanced no
\* more) and the session count is back to zero.
C10_CloseJoins ==
    (/\ \A p \in Procs : u[p].pc = "closed" /\ u[p].op \in {"none", "release"}
     /\ \E p \in Procs : u[p].op = "release")
    => (LiveThreads = {} /\ open_count = 0)

\* C11: a read whose length is smaller than the chunk header stores nothing in
\* the caller's buffer at any point, and returns EINVAL with no byte count,
\* whatever the ring holds
C11_ShortRead ==
    (u[1].op = "read" /\ u[1].len < sizeof_chunk_header)
        => /\ u[1].usr_bytes = 0
           /\ u[1].data = <<>>
           /\ u[1].ret = 0
           /\ u[1].pc \notin {"r_pop1", "r_pop2"}
           /\ u[1].pc \notin {"r_sync1", "r_info"} => u[1].err = "EINVAL"

\* a short read has returned EINVAL although it found samples in the ring
C11_Witness ==
    /\ u[1].op = "read"
    /\ u[1].pc = "opened"
    /\ u[1].len < sizeof_chunk_header
    /\ u[1].err = "EINVAL"
    /\ u[1].snap0.size_n > 0

\* a step in which write() returns to process 1 (a write() that repeats the
\* one before it leaves the same record, and is a step that changes nothing)
WriteReturns ==
    /\ u[1].pc = "opened"
    /\ u'[1].pc = "opened"
    /\ u'[1].op = "write"
    /\ u'[1] # u[1]

\* C12: every write() returns EPERM with no byte count and leaves the ring
\* buffer, the timeline, the Desync Counter, the settings, the lock, the
\* session and the thread as they were
C12_WriteRejected ==
    [][WriteReturns
         => /\ u'[1].err = "EPERM"
            /\ u'[1].ret = 0
            /\ UNCHANGED <<other_vars, ring_vars, sync_vars, hb_filters, cfg, signal_buf_m,
                           sess_vars, hw_vars, k, hist_vars>>]_vars

\* a write() of a whole sample was rejected in a session with the thread in the
\* middle of a drain and samples resident
C12_Witness ==
    /\ u[1].pc = "opened"
    /\ u[1].op = "write"
    /\ u[1].err = "EPERM"
    /\ u[1].len = sizeof_sample
    /\ head # tail
    /\ \E t \in Threads : k[t].pc = "drain"

\* C13: while the device is bound the ring's capacity in samples is a power of
\* two, and a probe that computed another capacity has failed with no buffer
\* left allocated: with EINVAL and the buffer freed, or with ENOMEM when
\* vmalloc had delivered no buffer to free
C13_CapacityPowerOfTwo ==
    /\ probe.state \in {"bound", "removed"} => \E e \in 0 .. 29 : capacity_n = 2 ^ e
    /\ (probe.state # "none" /\ ~(\E e \in 0 .. 29 : capacity_n = 2 ^ e))
          => /\ probe.state = "failed"
             /\ ~probe.vmalloc
             /\ probe.ret \in {"EINVAL", "ENOMEM"}
    /\ probe.ret = "EINVAL" => ~(\E e \in 0 .. 29 : capacity_n = 2 ^ e)

\* a probe with a buffer of 5 samples has failed
C13_Witness ==
    /\ probe.state = "failed"
    /\ probe.ret = "EINVAL"
    /\ capacity_n = 5

\* the factors lockamp_set_decimation is documented to accept
DecimationFactors == {1, 2, 4, 8, 16}

\* C14: a store of a factor in {1, 2, 4, 8, 16} succeeds and programs the
\* half-band filters and the FIR cycles for it; a store of any other factor
\* returns EINVAL and leaves the decimation register, the FIR cycles register
\* and the time step unchanged
C14_SetDecimation ==
    [][\A value \in StoreFactors :
          decimation_factor_store(value)
             => IF value \in DecimationFactors
                THEN /\ cfg'.result = "count"
                     /\ lockamp_get_decimation(hb_filters') = value
                     /\ cfg'.fir_cycles = Min(511, (341 * value) \div 8 - 6)
                ELSE /\ cfg'.result = "EINVAL"
                     /\ hb_filters' = hb_filters
                     /\ cfg'.fir_cycles = cfg.fir_cycles
                     /\ lockamp_get_time_step_ns(hb_filters')
                           = lockamp_get_time_step_ns(hb_filters)]_vars

\* a store was refused while the decimation factor was 8, in a session during
\* which the hardware has produced samples at that factor
C14_Witness ==
    /\ cfg.result = "EINVAL"
    /\ hb_filters = 3
    /\ cfg.fir_cycles = 335
    /\ u[1].pc = "opened"
    /\ now - last_start_time_ns = lockamp_get_time_step_ns(3) \div UnitNs

\* C15: a read whose desync check comes after the hardware FIFO has dropped a
\* sample, with no reset or check of the timeline in between, resets
\* last_start_time_ns to the current time; and a read fails for no other
\* reason than its length or its buffer
C15_LossAbsorbed ==
    /\ (u[1].pc \in {"r_info", "r_pop1", "r_pop2"} /\ u[1].lost) => u[1].resync
    /\ u[1].op = "read" => u[1].err \in {"", "EINVAL", "EFAULT"}

\* C16: while a thread holds signal_buf_m around its drain, no step changes
\* the decimation factor, the FIR filter coefficients or the sample
\* multiplier
C16_ConfigSerialized ==
    [][(signal_buf_m \in Threads)
         => /\ hb_filters' = hb_filters
            /\ cfg'.fir_cycles = cfg.fir_cycles
            /\ cfg'.fir_filter = cfg.fir_filter
            /\ cfg'.sample_multiplier = cfg.sample_multiplier]_vars

\* C17: between the return of the suspend callback and the unlock in the
\* resume callback no thread is inside a drain, and no step pops the hardware
\* FIFO, writes a ring slot or publishes head
C17_SuspendParksThread ==
    [][(signal_buf_m = PmOwner)
         => /\ \A t \in Threads : k[t].pc # "drain" /\ k'[t].pc # "drain"
            /\ Len(fifo') >= Len(fifo)
            /\ buf' = buf
            /\ head' = head
            /\ g_pushed' = g_pushed]_vars

\* the device is suspended while a running thread has samples waiting in the
\* hardware FIFO
C17_Witness ==
    /\ signal_buf_m = PmOwner
    /\ fifo # <<>>
    /\ \E t \in Threads : k[t].pc = "idle" /\ ~k[t].stop
    /\ g_pushed # <<>>

\* C18: when a read has returned successfully, whatever stores of the
\* decimation factor ran during it, last_start_time_ns has advanced from the
\* start time in the read's header by the number of samples returned times
\* the time step in that header
C18_ExactAcrossDecimation ==
    ReadReturned(1) =>
       last_start_time_ns - u[1].info.last_start_time_ns
          = u[1].info.data_size_n * (u[1].info.time_step_ns \div UnitNs)

\* C19: when open has returned 0, last_start_time_ns is the time of that open
\* and the Desync Counter has moved from the baseline by the events counted
\* since; and the first read of the session resets the timeline only when an
\* event has been counted since the open
C19_OpenBaseline ==
    /\ (u[1].pc = "opened" /\ u[1].op = "open" /\ u[1].err = "")
          => /\ last_start_time_ns = u[1].t_sync
             /\ u[1].t_sync <= now
             /\ desyncs - last_desyncs = g_sat + g_rd
    /\ (u[1].pc = "r_info" /\ u[1].first /\ u[1].resync) => g_sat + g_rd > 0

\* the first read of a session opened with desync events already counted has
\* passed its check without a reset
C19_Witness ==
    /\ u[1].pc = "r_info"
    /\ u[1].first
    /\ ~u[1].resync
    /\ last_desyncs > 0
    /\ desyncs = last_desyncs

\* the errors of device_open that come from starting the session
StartFaults == {"pm_get", "kthread_create", "sched_setscheduler"}

\* C20: when an open has failed on a fault of starting the session and no
\* process holds the device, no Acquisition Thread is left, the thread
\* pointer is NULL and the session count is zero, so that the next open passes
\* the busy check
C20_FailedOpenRestores ==
    \A p \in Procs :
       (/\ u[p].pc = "closed"
        /\ u[p].op = "open"
        /\ u[p].err \in StartFaults
        /\ \A q \in Procs : u[q].pc = "closed")
       => /\ LiveThreads = {}
          /\ thread = NULL
          /\ ~OpenCountPositive(open_count)

\* ---------------------------------------------------------------------- C21
\* the slots a drain of thread t has written so far, oldest first
DrainSlots(t) ==
    [i \in 1 .. Len(k[t].written) |-> buf[Mask(head + i - 1, capacity_n - 1)]]

\* C21: an iteration of the thread sets out to move min(available space,
\* FIFO occupancy) samples; every sample it moves is the front of the
\* hardware FIFO, written to the next slot; head stands still until the
\* iteration has moved them all, and is then stored once, advanced by the
\* number of samples moved modulo capacity, with every one of them written
C21_DrainMoves ==
    [][\A t \in Threads :
          /\ (k[t].pc = "idle" /\ k'[t].pc = "drain")
                => /\ k'[t].left = Min(CIRC_SPACE(head, tail, capacity_n), Len(fifo))
                   /\ k'[t].written = <<>>
                   /\ head' = head
          /\ (k[t].pc = "drain" /\ k'[t].pc = "drain")
                => /\ head' = head
                   /\ k'[t].left + Len(k'[t].written)
                         = k[t].left + Len(k[t].written)
                   /\ Len(k'[t].written) > Len(k[t].written)
                         => /\ fifo # <<>>
                            /\ k'[t].written = Append(k[t].written, Head(fifo))
                            /\ fifo' = Tail(fifo)
                            /\ DrainSlots(t)' = Append(DrainSlots(t),
                                                       <<Head(fifo), Head(fifo)>>)
          /\ (k[t].pc = "drain" /\ k'[t].pc = "idle")
                => /\ k[t].left = 0
                   /\ head' = Mask(head + Len(k[t].written), capacity_n - 1)
                   /\ Ids(DrainSlots(t)) = k[t].written
                   /\ \A i \in DOMAIN DrainSlots(t) : Complete(DrainSlots(t)[i])
                   /\ g_pushed' = g_pushed \o k[t].written]_vars

\* a drain has moved two samples across the end of the ring and is about to
\* store head; the ring had room for no more, and the hardware FIFO holds a
\* sample again
C21_Witness ==
    \E t \in Threads :
       /\ k[t].pc = "drain"
       /\ k[t].left = 0
       /\ Len(k[t].written) = 2
       /\ k[t].head < head
       /\ CIRC_SPACE(k[t].head, tail, capacity_n) = 0
       /\ fifo # <<>>

\* ---------------------------------------------------------------------- C22
\* C22: when a drain has moved samples until the ring had no space left, and
\* the hardware FIFO still holds samples, the Desync Counter has been
\* incremented
C22_FullMidDrain ==
    \A t \in Threads :
       (/\ k[t].pc = "drain"
        /\ k[t].left = 0
        /\ k[t].written # <<>>
        /\ CIRC_SPACE(k[t].head, tail, capacity_n) = 0
        /\ fifo # <<>>)
       => desyncs > 0

\* ---------------------------------------------------------------------- C23
\* C23: the desync check of every read leaves last_desyncs equal to the
\* Desync Counter, whether or not it has reset the timeline; and a check
\* resets last_start_time_ns only when the counter was incremented since
\* last_desyncs was last assigned, so the read that follows a read with no
\* increment in between leaves last_start_time_ns as it is
C23_OneResetPerDesync ==
    [][/\ (u[1].pc = "r_info" /\ u'[1].pc # "r_info")
             => last_desyncs' = desyncs'
       /\ (u[1].pc = "r_sync1" /\ u'[1].pc = "r_info")
             => /\ u'[1].resync => g_sat + g_rd > 0
                /\ ~u'[1].resync => last_start_time_ns' = last_start_time_ns]_vars

\* a read that is not the first of its session has passed its desync check
\* without a reset, after an earlier check has absorbed a desync
C23_Witness ==
    /\ u[1].pc = "r_info"
    /\ ~u[1].first
    /\ ~u[1].resync
    /\ last_desyncs > 0
    /\ desyncs = last_desyncs
    /\ g_returned # <<>>

\* ---------------------------------------------------------------------- C24
\* C24: once kthread_stop has set the stop flag of a thread, the thread
\* begins no drain (the one under way is its last), it exits, and an exited
\* thread takes no step but its release by kthread_stop; so under fair
\* scheduling the thread is eventually gone and device_release returns
C24_CancelTerminates ==
    /\ [][\A t \in Threads :
             /\ (k[t].stop /\ k[t].pc = "idle") => k'[t].pc \in {"idle", "exited"}
             /\ k[t].pc = "exited" => k'[t].pc \in {"exited", "none"}]_vars
    /\ \A t \in Threads : k[t].stop ~> k[t].pc \in {"exited", "none"}
    /\ (u[1].pc = "rl_join") ~> (u[1].pc = "closed" /\ thread = NULL)

\* device_release waits in kthread_stop for a thread that is in the middle of
\* a drain, with samples still to move
C24_Witness ==
    /\ u[1].pc = "rl_join"
    /\ k[u[1].target].stop
    /\ k[u[1].target].pc = "drain"
    /\ k[u[1].target].left > 0

\* ---------------------------------------------------------------------- C25
\* the number of samples a read of usr_buf_length bytes returns from a
\* snapshot of size_n samples
SnapshotCount(usr_buf_length, size_n) ==
    Min((usr_buf_length - sizeof_chunk_header) \div sizeof_sample, size_n)

\* the last n elements of a sequence
LastN(seq, n) == SubSeq(seq, Len(seq) - n + 1, Len(seq))

\* C25: whatever the producer publishes during a read, the samples the read
\* has copied are the oldest of those resident at its snapshot, in order and
\* never more than the snapshot counted; the number of samples it returns and
\* the advance of tail are those the snapshot and the length give
C25_SnapshotOnly ==
    /\ u[1].pc \in {"r_pop1", "r_pop2"}
          => /\ u[1].snap.head = u[1].snap0.head
             /\ Len(u[1].data) <= u[1].snap0.size_n
             /\ Ids(u[1].data) = SubSeq(g_pushed, g_popped - Len(u[1].data) + 1,
                                        g_popped)
             /\ u[1].info.data_size_n
                   = SnapshotCount(u[1].len, u[1].snap0.size_n)
             /\ tail = Mask(u[1].snap0.tail + Len(u[1].data), capacity_n - 1)
    /\ ReadReturned(1)
          => LET n == SnapshotCount(u[1].len, u[1].snap0.size_n)
             IN /\ u[1].info.data_size_n = n
                /\ u[1].ret = sizeof_chunk_header + n * sizeof_sample
                /\ tail = Mask(u[1].snap0.tail + n, capacity_n - 1)
                /\ LastN(Ids(g_returned), n) = SubSeq(g_pushed, g_popped - n + 1,
                                                       g_popped)

\* a read with room for the whole ring has copied every sample of its
\* snapshot, and the producer has published more since the snapshot
C25_Witness ==
    /\ u[1].pc = "r_pop2"
    /\ u[1].data # <<>>
    /\ (u[1].len - sizeof_chunk_header) \div sizeof_sample > u[1].snap0.size_n
    /\ u[1].snap.tail = u[1].snap0.head
    /\ head # u[1].snap0.head
    /\ Len(g_pushed) > g_popped

\* ---------------------------------------------------------------------- C26
\* C26: at every point of a drain, whatever the reader has popped since the
\* producer loaded tail, the space the producer computed is no larger than
\* the free space of the ring seen from the published head, and what is left
\* of it after the samples written so far is no larger than the free space
\* seen from the producer's head
C26_StaleTailSafe ==
    \A t \in Threads :
       k[t].pc = "drain"
          => /\ k[t].space <= CIRC_SPACE(head, tail, capacity_n)
             /\ k[t].space - Len(k[t].written)
                   <= CIRC_SPACE(k[t].head, tail, capacity_n)
             /\ k[t].left <= CIRC_SPACE(k[t].head, tail, capacity_n)

\* the reader has popped samples since the producer loaded tail: the drain
\* still has samples to move, and works with less space than the ring has
C26_Witness ==
    \E t \in Threads :
       /\ k[t].pc = "drain"
       /\ k[t].left > 0
       /\ k[t].written # <<>>
       /\ k[t].space - Len(k[t].written)
             < CIRC_SPACE(k[t].head, tail, capacity_n)

\* ---------------------------------------------------------------------- C27
\* C27: an iteration of the thread in which the read delay could not be
\* computed has warned and has slept for 250 ms in msleep
C27_SleepFallback ==
    \A t \in Threads :
       k[t].sleep.err => (k[t].sleep.warned /\ k[t].sleep.msleep_ms = 250)

\* ---------------------------------------------------------------------- C28
\* the half-FIFO fill times of the valid decimation factors, in ns
HalfFifoTimes ==
    {(lockamp_fifo_capacity_n \div 2) * LOCKAMP_BASE_TIME_STEP * n :
        n \in DecimationFactors}

\* max((target - duration) / 1000, 3000) for a duration in ns of any size
ExactUpperUs(target_sleep_ns, duration) ==
    IF duration.hi > 0 THEN 3000
    ELSE Max(CDiv(target_sleep_ns - duration.lo, 1000), 3000)

\* C28: whenever the thread has computed its sleep range from the half-FIFO
\* fill time of a valid decimation factor and the duration of the last
\* drain, 2000 <= lower <= upper, upper - lower <= 10000,
\* upper = max((fill time - duration) / 1000, 3000), and upper is at most
\* max(3000, fill time / 1000)
C28_SleepRange ==
    \A t \in Threads :
       (k[t].sleep.slept /\ ~k[t].sleep.err)
          => /\ k[t].sleep.target_ns \in HalfFifoTimes
             /\ 2000 <= k[t].sleep.lower_us
             /\ k[t].sleep.lower_us <= k[t].sleep.upper_us
             /\ k[t].sleep.upper_us - k[t].sleep.lower_us <= 10000
             /\ k[t].sleep.upper_us
                   = ExactUpperUs(k[t].sleep.target_ns, k[t].read_duration)
             /\ k[t].sleep.upper_us
                   <= Max(3000, k[t].sleep.target_ns \div 1000)

\* ---------------------------------------------------------------------- C29
\* the time steps of the valid decimation factors, in ns
TimeSteps == {2728, 5456, 10912, 21824, 43648}

\* C29: a store of the decimation factor that succeeds with value n leaves
\* lockamp_get_decimation at n and the time step at 2728 * n ns; and the time
\* step is one of 2728, 5456, 10912, 21824, 43648 ns, whatever stores were
\* made
C29_TimeStepExact ==
    /\ [](lockamp_get_time_step_ns(hb_filters) \in TimeSteps)
    /\ [][\A n \in StoreFactors :
             (decimation_factor_store(n) /\ cfg'.result = "count")
                => /\ lockamp_get_decimation(hb_filters') = n
                   /\ lockamp_get_time_step_ns(hb_filters')
                         = LOCKAMP_BASE_TIME_STEP * n]_vars

\* a store has set the decimation factor to 16, and every sample the hardware
\* has produced came 43648 ns after the one before it
C29_Witness ==
    /\ hb_filters = 4
    /\ lockamp_get_time_step_ns(hb_filters) = 43648
    /\ cfg.result = "count"
    /\ hw_seq > 0
    /\ now = hw_seq * (43648 \div UnitNs)

\* ---------------------------------------------------------------------- C30
\* C30: for the decimation factor in force and the number of samples k that a
\* read has returned, any number from 0 to 131071, lockamp_get_duration_ns
\* is the product k * time_step_ns
C30_DurationExact ==
    (ReadReturned(1) /\ u[1].info.data_size_n <= capacity_n - 1)
       => lockamp_get_duration_ns(hb_filters, u[1].info.data_size_n)
             = ExactDuration(lockamp_get_time_step_ns(hb_filters),
                             u[1].info.data_size_n)

\* ---------------------------------------------------------------------- C31
\* C31: latest_adc_samples has a partial-read race.  Every piece is copied
\* from the one acquisition adc_buffer holds, a read that no offset-0 read of
\* another process has interleaved with is assembled from one acquisition,
\* and a read that one has interleaved with may be assembled from several
\* (the state of C31_Witness is reachable): adc_buf_m, taken per call, does
\* not prevent it.
C31_PartialReadRace ==
    \A p \in Procs :
        /\ adc_rd[p].from \subseteq 1 .. adc_acq
        /\ ~adc_rd[p].raced => Cardinality(adc_rd[p].from) <= 1
        /\ adc_rd[p].done => /\ adc_rd[p].offset = LOCKAMP_ADC_SAMPLES_SIZE
                             /\ adc_rd[p].from # {}

\* a complete read assembled from two acquisitions
C31_Witness ==
    \E p \in Procs :
        /\ adc_rd[p].done
        /\ adc_rd[p].offset = LOCKAMP_ADC_SAMPLES_SIZE
        /\ Cardinality(adc_rd[p].from) = 2

\* ---------------------------------------------------------------------- C32
\* C32: no desync event is absorbed without a timeline reset: when the desync
\* check of a read makes last_desyncs catch up with increments of the Desync
\* Counter (the second load of synchronize), that read has reset
\* last_start_time_ns
C32_NoDesyncAbsorbed ==
    [][(u[1].pc = "r_info" /\ u'[1].pc # "r_info" /\ g_sat + g_rd > 0)
          => u[1].resync]_vars

\* ---------------------------------------------------------------------- C33
\* C33: the Desync Counter is changed only by the drain step of the
\* Acquisition Thread: every step that changes desyncs is a step of a
\* kthread, and no step of a read changes it
C33_OnlyDrainCounts ==
    [][desyncs' # desyncs => (u' = u /\ \E t \in Threads : k'[t] # k[t])]_vars

\* ---------------------------------------------------------------------- C34
\* C34: a read rejected with EINVAL (length below the header size) leaves
\* the Desync Counter, last_start_time_ns, last_desyncs and tail as they were
\* before the call: none of its steps (snapshot, desync check, chunk_get_info)
\* changes any of them
C34_RejectedReadNoEffect ==
    [][/\ (u[1].pc = "opened" /\ u'[1].pc = "r_sync1" /\ TooShort(u'[1].len))
             => desyncs' = desyncs /\ tail' = tail
       /\ (u[1].pc = "r_sync1" /\ u'[1].pc = "r_info" /\ TooShort(u[1].len))
             => last_start_time_ns' = last_start_time_ns /\ tail' = tail
       /\ (u[1].pc = "r_info" /\ u'[1].pc = "opened" /\ u'[1].err = "EINVAL")
             => last_desyncs' = last_desyncs /\ tail' = tail]_vars

\* ---------------------------------------------------------------------- C35
\* C35: a read that returns an error consumes no samples: when a read
\* returns EINVAL or EFAULT (the fault on the header, on the first run or on
\* the second run), tail is what it was at the read's snapshot
C35_FailedReadKeepsTail ==
    [][(u[1].pc \in {"r_info", "r_pop1", "r_pop2"} /\ u'[1].pc = "opened"
           /\ u'[1].err # "")
          => tail' = u[1].snap0.tail]_vars

\* ---------------------------------------------------------------------- C36
\* C36: no read of a session returns a sample pushed into the ring before
\* that session's open: when device_open is entered the ring holds no sample
\* (head = tail), so that no sample of an earlier session is resident when
\* the timeline of the new one is reset (no step of device_open moves tail)
C36_RingEmptyAtOpen ==
    [][(u[1].pc = "closed" /\ u'[1].pc = "o_inc") => head = tail]_vars

\* ---------------------------------------------------------------------- C37
\* C37: within one session the last_start_time_ns values of successive chunk
\* headers never decrease, also across a desync reset: the header of a read
\* that follows another read of the session carries a time stamp no smaller
\* than the header before it
C37_HeadersNeverDecrease ==
    [][(u[1].pc = "r_info" /\ u'[1].pc = "r_pop1" /\ u[1].info.time_step_ns # 0)
          => u'[1].info.last_start_time_ns >= u[1].info.last_start_time_ns]_vars

\* ---------------------------------------------------------------------- C38
\* C38: the stepper velocity ramp converges.  While velocity_current differs
\* from velocity_target the work item is queued or running; and with
\* rate_of_change >= 1, once the target is changed no more, velocity_current
\* equals velocity_target for good, velocity_shifting is false and no work
\* is left queued, whatever the interleaving of the target changes with the
\* delayed work
C38_RampConverges ==
    /\ [](stepdev.velocity_current # stepdev.velocity_target
             => (stepdev.velocity_dwork.pending \/ stepdev.velocity_dwork.running))
    /\ <>[](stepdev.cfg.rate_of_change >= 1
               => /\ stepdev.velocity_current = stepdev.velocity_target
                  /\ ~stepdev.velocity_shifting
                  /\ ~stepdev.velocity_dwork.pending
                  /\ ~stepdev.velocity_dwork.running)

\* the ramp of the tmc2100 has reached a target far from 0, set while the
\* ramp towards another target was under way
C38_Witness ==
    /\ stepdev.registered
    /\ stepdev.cfg = tmc2100_cfg
    /\ g_step.sets = MaxTargetChanges
    /\ g_step.result = 0
    /\ stepdev.velocity_target = -100
    /\ stepdev.velocity_current = -100
    /\ g_step.prev = -99
    /\ ~stepdev.velocity_shifting
    /\ ~stepdev.velocity_dwork.pending
    /\ ~stepdev.velocity_dwork.running

\* ---------------------------------------------------------------------- C39
\* C39: every velocity handed to set_velocity differs from the velocity
\* applied before it by at most rate_of_change and, when 0 is within
\* [cfg.min, cfg.max], lies within that range; and a target outside
\* [cfg.min, cfg.max] is rejected with EINVAL and leaves velocity_target
\* unchanged
C39_RampBounded ==
    [][/\ (stepdev.velocity_dwork.running /\ ~stepdev'.velocity_dwork.running)
             => /\ g_step'.prev = g_step.cur
                /\ g_step'.cur = stepdev'.velocity_current
                /\ g_step'.cur - g_step'.prev <= stepdev.cfg.rate_of_change
                /\ g_step'.prev - g_step'.cur <= stepdev.cfg.rate_of_change
                /\ (stepdev.cfg.min <= 0 /\ 0 <= stepdev.cfg.max)
                      => /\ stepdev.cfg.min <= g_step'.cur
                         /\ g_step'.cur <= stepdev.cfg.max
       /\ (g_step'.sets # g_step.sets
              /\ ~(stepdev.cfg.min <= g_step'.vel /\ g_step'.vel <= stepdev.cfg.max))
             => /\ g_step'.result = EINVAL
                /\ stepdev'.velocity_target = stepdev.velocity_target]_vars

\* a ramp step of the full rate_of_change 3 towards a target set after a
\* target outside the range was rejected while the ramp was under way
C39_Witness ==
    /\ stepdev.registered
    /\ stepdev.cfg.rate_of_change = 3
    /\ g_step.sets = 2
    /\ g_step.vel = 8
    /\ g_step.result = EINVAL
    /\ stepdev.velocity_target = 7
    /\ g_step.prev = 3
    /\ g_step.cur = 6

\* ---------------------------------------------------------------------- C40
\* C40: in the driver without the signal buffer, every kernel buffer a read
\* allocates is released before the read returns, on the success path and on
\* every error path: no read buffer is live while no read is in progress
C40_ReadBuffersReleased ==
    (\A p \in Procs : fifo_rd[p].pc = "idle") => kbufs = 0

====
